---- MODULE Spec2Model ----
(***************************************************************************)
(* A model of the uf-crsf frame parser, packet dispatch, payload codecs    *)
(* and frame encoder.  Bytes are integers in 0..255, slices are sequences  *)
(* (data[i] of the source is At(data, i)), the parser's working buffer is  *)
(* a function on 0..63.  A panic of the Rust code (index out of range,     *)
(* failed unwrap/expect, heapless collect overflow) is the result "Abort". *)
(***************************************************************************)
EXTENDS Integers, Sequences, FiniteSets, TLC

VARIABLES
    buffer,     \* CrsfParser.buffer : [u8; 64]
    state,      \* CrsfParser.state
    position,   \* CrsfParser.position
    result,     \* what the last push_byte_raw / push_byte call returned
    input,      \* the byte slice handed to iter_packets (or the encoder's output)
    pos,        \* PacketIterator.pos over `input`
    limit,      \* end of the slice the live iterator was created over
    out,        \* the items yielded so far
    scen,       \* the scenario the inputs were drawn from
    aborted,    \* TRUE once a call has panicked
    iter        \* the PacketIterator in use, if any

vars == <<buffer, state, position, result, input, pos, limit, out, scen, aborted, iter>>

(***************************************************************************)
(* Bytes, bit operations and fixed-width integers                          *)
(***************************************************************************)
Byte == 0..255

RECURSIVE BitXor(_, _)
BitXor(a, b) ==
    IF a = 0 THEN b
    ELSE IF b = 0 THEN a
    ELSE (((a % 2) + (b % 2)) % 2) + 2 * BitXor(a \div 2, b \div 2)

RECURSIVE BitOr(_, _)
BitOr(a, b) ==
    IF a = 0 THEN b
    ELSE IF b = 0 THEN a
    ELSE (IF a % 2 = 1 \/ b % 2 = 1 THEN 1 ELSE 0) + 2 * BitOr(a \div 2, b \div 2)

RECURSIVE BitAnd(_, _)
BitAnd(a, b) ==
    IF a = 0 \/ b = 0 THEN 0
    ELSE (IF a % 2 = 1 /\ b % 2 = 1 THEN 1 ELSE 0) + 2 * BitAnd(a \div 2, b \div 2)

RECURSIVE Pow2(_)
Pow2(n) == IF n = 0 THEN 1 ELSE 2 * Pow2(n - 1)

\* `x as uN` of a mathematical integer: wrap to n bits
Wrap(x, bits) == x % Pow2(bits)

\* reinterpret an unsigned n-bit value as the signed one (`as iN`)
Signed(x, bits) == IF x >= Pow2(bits - 1) THEN x - Pow2(bits) ELSE x

\* data[i] and data[a..b] of a Rust slice held as a sequence
At(data, i) == data[i + 1]
Slice(data, a, b) == SubSeq(data, a + 1, b)

RECURSIVE FromBe(_)
\* uN::from_be_bytes
FromBe(s) == IF Len(s) = 0 THEN 0 ELSE FromBe(SubSeq(s, 1, Len(s) - 1)) * 256 + s[Len(s)]

\* uN::to_be_bytes / iN::to_be_bytes of v on n bytes (\div rounds down, so
\* a negative v gives its two's complement bytes)
ToBe(v, n) == [i \in 1..n |-> (v \div (Pow2(8 * (n - i)))) % 256]

\* i32::from_be_bytes, without leaving the 32-bit integers
I32FromBe(s) == Signed(s[1], 8) * Pow2(24) + s[2] * 65536 + s[3] * 256 + s[4]

\* a u32 is held as its two 16-bit halves [hi, lo]
U32(hi, lo) == [hi |-> hi, lo |-> lo]
U32ToBe(x) == ToBe(x.hi, 2) \o ToBe(x.lo, 2)
U32FromBe(s) == U32(FromBe(SubSeq(s, 1, 2)), FromBe(SubSeq(s, 3, 4)))

(***************************************************************************)
(* constants.rs                                                            *)
(***************************************************************************)
CRSF_SYNC_BYTE == 200
CRSF_MAX_PACKET_SIZE == 64
CRSF_MIN_PACKET_SIZE == 4
CRSF_PACKET_HEADER_LEN == 2

(***************************************************************************)
(* CRC-8/DVB-S2 as the crc crate computes it: polynomial 0xD5, zero        *)
(* initial value, not reflected, no final xor.                             *)
(***************************************************************************)
CRC_8_DVB_S2_POLY == 213

Crc8Round(x) == IF x >= 128 THEN BitXor((x * 2) % 256, CRC_8_DVB_S2_POLY) ELSE x * 2

Crc8Table ==
    [i \in Byte |->
        Crc8Round(Crc8Round(Crc8Round(Crc8Round(
        Crc8Round(Crc8Round(Crc8Round(Crc8Round(i))))))))]

RECURSIVE Crc8Update(_, _)
\* digest.update(bytes) from the running value crc
Crc8Update(crc, bytes) ==
    IF Len(bytes) = 0 \/ crc \notin Byte THEN crc
    ELSE Crc8Update(Crc8Table[BitXor(crc, Head(bytes))], Tail(bytes))

\* digest = crc8_dvb_s2.digest(); digest.update(bytes); digest.finalize()
Crc8(bytes) == Crc8Update(0, bytes)

(***************************************************************************)
(* packets/mod.rs: the address and packet type enumerations               *)
(***************************************************************************)
PacketAddress ==
    { 0, 14, 16, 18, 19, 20, 128, 144, 145, 146, 147, 148, 149, 150, 151,
      192, 194, 196, 200, 204, 206, 234, 236, 238 }

PacketType ==
    { 2, 3, 6, 7, 8, 9, 10, 12, 13, 14, 16, 11, 20, 22, 23, 28, 29, 30, 31,
      33, 34, 40, 41, 43, 44, 45, 46, 50, 58, 120, 121, 122, 123, 124, 128, 170 }

is_extended(t) == t >= 40

(***************************************************************************)
(* parser.rs: State, CrsfParser, ParseResult                               *)
(***************************************************************************)
AwaitingSync == [tag |-> "AwaitingSync"]
AwaitingLenth == [tag |-> "AwaitingLenth"]
Reading(n) == [tag |-> "Reading", n |-> n]
AwaitingCrc == [tag |-> "AwaitingCrc"]

Incomplete == [kind |-> "Incomplete"]
Complete(v) == [kind |-> "Complete", val |-> v]
Error(e) == [kind |-> "Error", err |-> e]
Abort == [kind |-> "Abort"]

InvalidSync == [name |-> "InvalidSync"]
InvalidPacketLength == [name |-> "InvalidPacketLength"]
InvalidCrc(calc, got) == [name |-> "InvalidCrc", calculated_crc |-> calc, packet_crc |-> got]
ParsingError(e) == [name |-> "ParsingError", cause |-> e]

\* CrsfParser::new
CrsfParser_new ==
    [buffer |-> [i \in 0..(CRSF_MAX_PACKET_SIZE - 1) |-> 0],
     state |-> AwaitingSync,
     position |-> 0]

\* a slip: reset rewinds the cursor and leaves the state
reset_KeepsState(p) == [p EXCEPT !.position = 0]

\* CrsfParser::reset
reset(p) == [p EXCEPT !.position = 0, !.state = AwaitingSync]

\* RawCrsfPacket::new: None for fewer than 4 bytes
RawCrsfPacket_new(bytes) ==
    IF Len(bytes) >= 4 THEN [some |-> TRUE, bytes |-> bytes] ELSE [some |-> FALSE]

raw_packet_type(raw) == At(raw, 2)
payload(raw) == Slice(raw, 3, Len(raw) - 1)
dst_addr(raw) == At(raw, 0)
crc(raw) == raw[Len(raw)]

\* self.buffer[self.position] = byte; the index panics at 64 and above
StoreOk(p) == p.position < CRSF_MAX_PACKET_SIZE
Store(p, byte) == [p EXCEPT !.buffer[p.position] = byte]

\* &self.buffer[a..b] as a sequence
BufSlice(buf, a, b) == [i \in 1..(b - a) |-> buf[a + i - 1]]

\* a slip: after a byte that is no address the parser awaits a length
PushAwaitingSync_ErrAwaitsLength(p, byte) ==
    IF byte \in PacketAddress
    THEN [parser |-> [Store([p EXCEPT !.position = 0], byte) EXCEPT !.state = AwaitingLenth],
          result |-> Incomplete]
    ELSE [parser |-> [p EXCEPT !.state = AwaitingLenth],
          result |-> Error(InvalidSync)]

\* a slip: every byte is taken as the start of a frame
PushAwaitingSync_AnySync(p, byte) ==
    [parser |-> [Store([p EXCEPT !.position = 0], byte) EXCEPT !.state = AwaitingLenth],
     result |-> Incomplete]

\* the AwaitingSync arm of push_byte_raw
PushAwaitingSync(p, byte) ==
    IF byte \in PacketAddress
    THEN [parser |-> [Store([p EXCEPT !.position = 0], byte) EXCEPT !.state = AwaitingLenth],
          result |-> Incomplete]
    ELSE [parser |-> [p EXCEPT !.state = AwaitingSync],
          result |-> Error(InvalidSync)]

\* a slip: Reading is given the frame's length, not the index of its CRC
PushAwaitingLenth_Whole(p, byte) ==
    LET n == byte + 2 IN
    IF ~(n >= CRSF_MIN_PACKET_SIZE /\ n < CRSF_MAX_PACKET_SIZE)
    THEN [parser |-> reset(p), result |-> Error(InvalidPacketLength)]
    ELSE [parser |-> [Store([p EXCEPT !.position = 1], byte) EXCEPT !.state = Reading(n)],
          result |-> Incomplete]

\* a slip: a frame of CRSF_MAX_PACKET_SIZE bytes is let in
PushAwaitingLenth_Wide(p, byte) ==
    LET n == byte + 2 IN
    IF ~(n >= CRSF_MIN_PACKET_SIZE /\ n <= CRSF_MAX_PACKET_SIZE)
    THEN [parser |-> reset(p), result |-> Error(InvalidPacketLength)]
    ELSE [parser |-> [Store([p EXCEPT !.position = 1], byte) EXCEPT !.state = Reading(n - 1)],
          result |-> Incomplete]

\* a slip: the length error is reported without the reset
PushAwaitingLenth_NoReset(p, byte) ==
    LET n == byte + 2 IN
    IF ~(n >= CRSF_MIN_PACKET_SIZE /\ n < CRSF_MAX_PACKET_SIZE)
    THEN [parser |-> p, result |-> Error(InvalidPacketLength)]
    ELSE [parser |-> [Store([p EXCEPT !.position = 1], byte) EXCEPT !.state = Reading(n - 1)],
          result |-> Incomplete]

\* the AwaitingLenth arm of push_byte_raw
PushAwaitingLenth(p, byte) ==
    LET n == byte + 2 IN
    IF ~(n >= CRSF_MIN_PACKET_SIZE /\ n < CRSF_MAX_PACKET_SIZE)
    THEN [parser |-> reset(p), result |-> Error(InvalidPacketLength)]
    ELSE [parser |-> [Store([p EXCEPT !.position = 1], byte) EXCEPT !.state = Reading(n - 1)],
          result |-> Incomplete]

\* a slip: the CRC is awaited one byte late
PushReading_OneLate(p, byte) ==
    LET q == [p EXCEPT !.position = p.position + 1] IN
    IF ~StoreOk(q) THEN [parser |-> q, result |-> Abort]
    ELSE LET w == Store(q, byte) IN
         [parser |-> IF w.position = p.state.n THEN [w EXCEPT !.state = AwaitingCrc] ELSE w,
          result |-> Incomplete]

\* the Reading(n) arm of push_byte_raw
PushReading(p, byte) ==
    LET q == [p EXCEPT !.position = p.position + 1] IN
    IF ~StoreOk(q) THEN [parser |-> q, result |-> Abort]
    ELSE LET w == Store(q, byte) IN
         [parser |-> IF w.position = p.state.n - 1 THEN [w EXCEPT !.state = AwaitingCrc] ELSE w,
          result |-> Incomplete]

\* a slip: the frame is returned without the reset
PushAwaitingCrc_NoReset(p, byte) ==
    LET q == [p EXCEPT !.position = p.position + 1] IN
    IF ~StoreOk(q) \/ q.position < 2 THEN [parser |-> q, result |-> Abort]
    ELSE LET w == Store(q, byte)
             calculated_crc == Crc8(BufSlice(w.buffer, 2, w.position))
             packet_crc == w.buffer[w.position]
             raw == RawCrsfPacket_new(BufSlice(w.buffer, 0, w.position + 1))
         IN  IF calculated_crc # packet_crc
             THEN [parser |-> reset(w), result |-> Error(InvalidCrc(calculated_crc, packet_crc))]
             ELSE IF ~raw.some THEN [parser |-> reset(w), result |-> Abort]
             ELSE [parser |-> w, result |-> Complete(raw.bytes)]

\* a slip: the frame is returned without comparing the CRC
PushAwaitingCrc_NoCheck(p, byte) ==
    LET q == [p EXCEPT !.position = p.position + 1] IN
    IF ~StoreOk(q) \/ q.position < 2 THEN [parser |-> q, result |-> Abort]
    ELSE LET w == Store(q, byte)
             raw == RawCrsfPacket_new(BufSlice(w.buffer, 0, w.position + 1))
         IN  IF ~raw.some THEN [parser |-> reset(w), result |-> Abort]
             ELSE [parser |-> reset(w), result |-> Complete(raw.bytes)]

\* a slip: the two fields of InvalidCrc are swapped
PushAwaitingCrc_Swapped(p, byte) ==
    LET q == [p EXCEPT !.position = p.position + 1] IN
    IF ~StoreOk(q) \/ q.position < 2 THEN [parser |-> q, result |-> Abort]
    ELSE LET w == Store(q, byte)
             calculated_crc == Crc8(BufSlice(w.buffer, 2, w.position))
             raw == RawCrsfPacket_new(BufSlice(w.buffer, 0, w.position + 1))
         IN  IF calculated_crc # byte
             THEN [parser |-> reset(w), result |-> Error(InvalidCrc(byte, calculated_crc))]
             ELSE IF ~raw.some THEN [parser |-> reset(w), result |-> Abort]
             ELSE [parser |-> reset(w), result |-> Complete(raw.bytes)]

\* the AwaitingCrc arm of push_byte_raw
PushAwaitingCrc(p, byte) ==
    LET q == [p EXCEPT !.position = p.position + 1] IN
    IF ~StoreOk(q) \/ q.position < 2 THEN [parser |-> q, result |-> Abort]
    ELSE LET w == Store(q, byte)
             calculated_crc == Crc8(BufSlice(w.buffer, 2, w.position))
             packet_crc == w.buffer[w.position]
             end == w.position + 1
             raw == RawCrsfPacket_new(BufSlice(w.buffer, 0, end))
         IN  IF calculated_crc # packet_crc
             THEN [parser |-> reset(w), result |-> Error(InvalidCrc(calculated_crc, packet_crc))]
             ELSE IF ~raw.some THEN [parser |-> reset(w), result |-> Abort]
             ELSE [parser |-> reset(w), result |-> Complete(raw.bytes)]

\* CrsfParser::push_byte_raw
push_byte_raw(p, byte) ==
    CASE p.state.tag = "AwaitingSync" -> PushAwaitingSync(p, byte)
      [] p.state.tag = "AwaitingLenth" -> PushAwaitingLenth(p, byte)
      [] p.state.tag = "Reading" -> PushReading(p, byte)
      [] p.state.tag = "AwaitingCrc" -> PushAwaitingCrc(p, byte)

(***************************************************************************)
(* error.rs: CrsfParsingError, and the Result of a codec call              *)
(***************************************************************************)
InvalidPayloadLength == [name |-> "InvalidPayloadLength"]
InvalidPayload == [name |-> "InvalidPayload"]
BufferOverflow == [name |-> "BufferOverflow"]
UnexpectedPacketType(t) == [name |-> "UnexpectedPacketType", packet_type |-> t]

Ok(v) == [tag |-> "Ok", val |-> v]
Err(e) == [tag |-> "Err", err |-> e]
Panic == [tag |-> "Panic"]

\* CrsfPacket::validate_buffer_size: TRUE when the buffer is accepted
validate_buffer_size(cap, MIN_PAYLOAD_SIZE) == ~(cap < MIN_PAYLOAD_SIZE)

\* u16 shifts of rc_channels_packed.rs
\* a slip: the bytes are shifted without being widened to u16
Shl16_Narrow(x, k) == Wrap(x * Pow2(k), 8)
Shl16(x, k) == Wrap(x * Pow2(k), 16)
\* a slip: the right shift moves one bit too far
Shr_OneMore(x, k) == x \div Pow2(k + 1)
Shr(x, k) == x \div Pow2(k)
\* a slip: the cast saturates
U8_Saturate(x) == IF x > 255 THEN 255 ELSE x
U8(x) == Wrap(x, 8)

\* slice.chunks_exact(k) collected in order (the remainder is dropped)
ChunksExact(data, k) == [i \in 1..(Len(data) \div k) |-> SubSeq(data, (i - 1) * k + 1, i * k)]

(***************************************************************************)
(* packets/link_statistics.rs                                              *)
(***************************************************************************)
LinkStatistics_PACKET_TYPE == 20
LinkStatistics_MIN_PAYLOAD_SIZE == 10

LinkStatistics_to_bytes(r, cap) ==
    IF ~validate_buffer_size(cap, LinkStatistics_MIN_PAYLOAD_SIZE) THEN Err(BufferOverflow)
    ELSE Ok(<< r.uplink_rssi_1, r.uplink_rssi_2, r.uplink_link_quality, U8(r.uplink_snr),
               r.active_antenna, r.rf_mode, r.uplink_tx_power, r.downlink_rssi,
               r.downlink_link_quality, U8(r.downlink_snr) >>)

LinkStatistics_from_bytes(data) ==
    IF Len(data) = LinkStatistics_MIN_PAYLOAD_SIZE
    THEN Ok([uplink_rssi_1 |-> At(data, 0), uplink_rssi_2 |-> At(data, 1),
             uplink_link_quality |-> At(data, 2), uplink_snr |-> Signed(At(data, 3), 8),
             active_antenna |-> At(data, 4), rf_mode |-> At(data, 5),
             uplink_tx_power |-> At(data, 6), downlink_rssi |-> At(data, 7),
             downlink_link_quality |-> At(data, 8), downlink_snr |-> Signed(At(data, 9), 8)])
    ELSE Err(InvalidPayloadLength)

(***************************************************************************)
(* packets/link_statistics_rx.rs, packets/link_statistics_tx.rs            *)
(***************************************************************************)
LinkStatisticsRx_PACKET_TYPE == 28
LinkStatisticsRx_MIN_PAYLOAD_SIZE == 5

LinkStatisticsRx_to_bytes(r, cap) ==
    IF ~validate_buffer_size(cap, LinkStatisticsRx_MIN_PAYLOAD_SIZE) THEN Err(BufferOverflow)
    ELSE Ok(<< r.rssi_db, r.rssi_percent, r.link_quality, U8(r.snr), r.rf_power_db >>)

LinkStatisticsRx_from_bytes(data) ==
    IF Len(data) # LinkStatisticsRx_MIN_PAYLOAD_SIZE THEN Err(InvalidPayloadLength)
    ELSE Ok([rssi_db |-> At(data, 0), rssi_percent |-> At(data, 1),
             link_quality |-> At(data, 2), snr |-> Signed(At(data, 3), 8),
             rf_power_db |-> At(data, 4)])

LinkStatisticsTx_PACKET_TYPE == 29
LinkStatisticsTx_SERIALIZED_LEN == 6

\* the buffer is a [u8; SERIALIZED_LEN]: cap is that length for every caller
LinkStatisticsTx_to_bytes(r, cap) ==
    IF cap < LinkStatisticsTx_SERIALIZED_LEN THEN Err(BufferOverflow)
    ELSE Ok(<< r.rssi_db, r.rssi_percent, r.link_quality, U8(r.snr), r.rf_power_db, r.fps >>)

LinkStatisticsTx_from_bytes(data) ==
    IF Len(data) # LinkStatisticsTx_SERIALIZED_LEN THEN Err(InvalidPayloadLength)
    ELSE Ok([rssi_db |-> At(data, 0), rssi_percent |-> At(data, 1),
             link_quality |-> At(data, 2), snr |-> Signed(At(data, 3), 8),
             rf_power_db |-> At(data, 4), fps |-> At(data, 5)])

(***************************************************************************)
(* packets/rc_channels_packed.rs                                           *)
(***************************************************************************)
RcChannelsPacked_PACKET_TYPE == 22
RcChannelsPacked_MIN_PAYLOAD_SIZE == (16 * 11) \div 8
MASK_11BIT == 2047

\* r.ch is the [u16; 16] held as a function on 0..15
RcChannelsPacked_to_bytes(r, cap) ==
    IF ~validate_buffer_size(cap, RcChannelsPacked_MIN_PAYLOAD_SIZE) THEN Err(BufferOverflow)
    ELSE LET ch == r.ch IN
    Ok(<< U8(ch[0]),
          U8(BitOr(Shr(ch[0], 8), Shl16(ch[1], 3))),
          U8(BitOr(Shr(ch[1], 5), Shl16(ch[2], 6))),
          U8(Shr(ch[2], 2)),
          U8(BitOr(Shr(ch[2], 10), Shl16(ch[3], 1))),
          U8(BitOr(Shr(ch[3], 7), Shl16(ch[4], 4))),
          U8(BitOr(Shr(ch[4], 4), Shl16(ch[5], 7))),
          U8(Shr(ch[5], 1)),
          U8(BitOr(Shr(ch[5], 9), Shl16(ch[6], 2))),
          U8(BitOr(Shr(ch[6], 6), Shl16(ch[7], 5))),
          U8(Shr(ch[7], 3)),
          U8(ch[8]),
          U8(BitOr(Shr(ch[8], 8), Shl16(ch[9], 3))),
          U8(BitOr(Shr(ch[9], 5), Shl16(ch[10], 6))),
          U8(Shr(ch[10], 2)),
          U8(BitOr(Shr(ch[10], 10), Shl16(ch[11], 1))),
          U8(BitOr(Shr(ch[11], 7), Shl16(ch[12], 4))),
          U8(BitOr(Shr(ch[12], 4), Shl16(ch[13], 7))),
          U8(Shr(ch[13], 1)),
          U8(BitOr(Shr(ch[13], 9), Shl16(ch[14], 2))),
          U8(BitOr(Shr(ch[14], 6), Shl16(ch[15], 5))),
          U8(Shr(ch[15], 3)) >>)

RcChannelsPacked_from_bytes(data) ==
    IF Len(data) # RcChannelsPacked_MIN_PAYLOAD_SIZE THEN Err(InvalidPayloadLength)
    ELSE LET d == [i \in 0..21 |-> At(data, i)]
             M(x) == BitAnd(MASK_11BIT, x)
             ch == <<
                M(BitOr(d[0], Shl16(d[1], 8))),
                M(BitOr(Shr(d[1], 3), Shl16(d[2], 5))),
                M(BitOr(BitOr(Shr(d[2], 6), Shl16(d[3], 2)), Shl16(d[4], 10))),
                M(BitOr(Shr(d[4], 1), Shl16(d[5], 7))),
                M(BitOr(Shr(d[5], 4), Shl16(d[6], 4))),
                M(BitOr(BitOr(Shr(d[6], 7), Shl16(d[7], 1)), Shl16(d[8], 9))),
                M(BitOr(Shr(d[8], 2), Shl16(d[9], 6))),
                M(BitOr(Shr(d[9], 5), Shl16(d[10], 3))),
                M(BitOr(d[11], Shl16(d[12], 8))),
                M(BitOr(Shr(d[12], 3), Shl16(d[13], 5))),
                M(BitOr(BitOr(Shr(d[13], 6), Shl16(d[14], 2)), Shl16(d[15], 10))),
                M(BitOr(Shr(d[15], 1), Shl16(d[16], 7))),
                M(BitOr(Shr(d[16], 4), Shl16(d[17], 4))),
                M(BitOr(BitOr(Shr(d[17], 7), Shl16(d[18], 1)), Shl16(d[19], 9))),
                M(BitOr(Shr(d[19], 2), Shl16(d[20], 6))),
                M(BitOr(Shr(d[20], 5), Shl16(d[21], 3))) >>
         IN  Ok([ch |-> [i \in 0..15 |-> ch[i + 1]]])

(***************************************************************************)
(* packets/gps.rs, gps_time.rs, gps_extended.rs                            *)
(***************************************************************************)
Gps_PACKET_TYPE == 2
Gps_MIN_PAYLOAD_SIZE == 15

Gps_to_bytes(r, cap) ==
    IF cap < Gps_MIN_PAYLOAD_SIZE THEN Err(BufferOverflow)
    ELSE Ok(ToBe(r.latitude, 4) \o ToBe(r.longitude, 4) \o ToBe(r.groundspeed, 2)
            \o ToBe(r.heading, 2) \o ToBe(r.altitude, 2) \o << r.satellites >>)

Gps_from_bytes(data) ==
    IF Len(data) < Gps_MIN_PAYLOAD_SIZE THEN Err(InvalidPayloadLength)
    ELSE Ok([latitude |-> I32FromBe(Slice(data, 0, 4)),
             longitude |-> I32FromBe(Slice(data, 4, 8)),
             groundspeed |-> FromBe(Slice(data, 8, 10)),
             heading |-> FromBe(Slice(data, 10, 12)),
             altitude |-> FromBe(Slice(data, 12, 14)),
             satellites |-> At(data, 14)])

GpsTime_PACKET_TYPE == 3
GpsTime_MIN_PAYLOAD_SIZE == 2 + 5 * 1 + 2

GpsTime_to_bytes(r, cap) ==
    IF ~validate_buffer_size(cap, GpsTime_MIN_PAYLOAD_SIZE) THEN Err(BufferOverflow)
    ELSE Ok(ToBe(r.year, 2) \o << r.month, r.day, r.hour, r.minute, r.second >>
            \o ToBe(r.millisecond, 2))

GpsTime_from_bytes(data) ==
    IF Len(data) # GpsTime_MIN_PAYLOAD_SIZE THEN Err(InvalidPayloadLength)
    ELSE Ok([year |-> Signed(FromBe(Slice(data, 0, 2)), 16),
             month |-> At(data, 2), day |-> At(data, 3), hour |-> At(data, 4),
             minute |-> At(data, 5), second |-> At(data, 6),
             millisecond |-> FromBe(Slice(data, 7, 9))])

GpsExtended_PACKET_TYPE == 6
GpsExtended_MIN_PAYLOAD_SIZE == 4 * 1 + (4 + 4) * 2

GpsExtended_to_bytes(r, cap) ==
    IF ~validate_buffer_size(cap, GpsExtended_MIN_PAYLOAD_SIZE) THEN Err(BufferOverflow)
    ELSE Ok(<< r.fix_type >> \o ToBe(r.n_speed, 2) \o ToBe(r.e_speed, 2) \o ToBe(r.v_speed, 2)
            \o ToBe(r.h_speed_acc, 2) \o ToBe(r.track_acc, 2) \o ToBe(r.alt_ellipsoid, 2)
            \o ToBe(r.h_acc, 2) \o ToBe(r.v_acc, 2) \o << r.reserved, r.h_dop, r.v_dop >>)

GpsExtended_from_bytes(data) ==
    IF Len(data) # GpsExtended_MIN_PAYLOAD_SIZE THEN Err(InvalidPayloadLength)
    ELSE Ok([fix_type |-> At(data, 0),
             n_speed |-> Signed(FromBe(Slice(data, 1, 3)), 16),
             e_speed |-> Signed(FromBe(Slice(data, 3, 5)), 16),
             v_speed |-> Signed(FromBe(Slice(data, 5, 7)), 16),
             h_speed_acc |-> Signed(FromBe(Slice(data, 7, 9)), 16),
             track_acc |-> Signed(FromBe(Slice(data, 9, 11)), 16),
             alt_ellipsoid |-> Signed(FromBe(Slice(data, 11, 13)), 16),
             h_acc |-> Signed(FromBe(Slice(data, 13, 15)), 16),
             v_acc |-> Signed(FromBe(Slice(data, 15, 17)), 16),
             reserved |-> At(data, 17), h_dop |-> At(data, 18), v_dop |-> At(data, 19)])

(***************************************************************************)
(* packets/vario.rs, battery.rs, airspeed.rs, baro_altitude.rs             *)
(***************************************************************************)
VariometerSensor_PACKET_TYPE == 7
VariometerSensor_MIN_PAYLOAD_SIZE == 2

VariometerSensor_to_bytes(r, cap) ==
    IF ~validate_buffer_size(cap, VariometerSensor_MIN_PAYLOAD_SIZE) THEN Err(BufferOverflow)
    ELSE Ok(ToBe(r.v_speed, 2))

VariometerSensor_from_bytes(data) ==
    IF Len(data) # VariometerSensor_MIN_PAYLOAD_SIZE THEN Err(InvalidPayloadLength)
    ELSE Ok([v_speed |-> Signed(FromBe(<< At(data, 0), At(data, 1) >>), 16)])

Battery_PACKET_TYPE == 8
Battery_MIN_PAYLOAD_SIZE == 2 * 2 + 3 + 1

Battery_to_bytes(r, cap) ==
    IF ~validate_buffer_size(cap, Battery_MIN_PAYLOAD_SIZE) THEN Err(BufferOverflow)
    ELSE Ok(ToBe(r.voltage, 2) \o ToBe(r.current, 2)
            \o Slice(U32ToBe(r.capacity_used), 1, 4) \o << r.remaining >>)

Battery_from_bytes(data) ==
    IF Len(data) # Battery_MIN_PAYLOAD_SIZE THEN Err(InvalidPayloadLength)
    ELSE Ok([voltage |-> Signed(FromBe(Slice(data, 0, 2)), 16),
             current |-> Signed(FromBe(Slice(data, 2, 4)), 16),
             capacity_used |-> U32FromBe(<< 0 >> \o Slice(data, 4, 7)),
             remaining |-> At(data, 7)])

AirSpeed_PACKET_TYPE == 10
AirSpeed_MIN_PAYLOAD_SIZE == 2

AirSpeed_to_bytes(r, cap) ==
    IF ~validate_buffer_size(cap, AirSpeed_MIN_PAYLOAD_SIZE) THEN Err(BufferOverflow)
    ELSE Ok(ToBe(r.speed, 2))

\* data.get(0..2) is None for fewer than two bytes
AirSpeed_from_bytes(data) ==
    IF Len(data) < 2 THEN Err(InvalidPayloadLength)
    ELSE Ok([speed |-> FromBe(Slice(data, 0, 2))])

BaroAltitude_PACKET_TYPE == 9
BaroAltitude_MIN_PAYLOAD_SIZE == 2 + 1

BaroAltitude_to_bytes(r, cap) ==
    IF ~validate_buffer_size(cap, BaroAltitude_MIN_PAYLOAD_SIZE) THEN Err(BufferOverflow)
    ELSE Ok(ToBe(r.altitude_packed, 2) \o << U8(r.vertical_speed_packed) >>)

BaroAltitude_from_bytes(data) ==
    IF Len(data) # BaroAltitude_MIN_PAYLOAD_SIZE THEN Err(InvalidPayloadLength)
    ELSE Ok([altitude_packed |-> FromBe(Slice(data, 0, 2)),
             vertical_speed_packed |-> Signed(At(data, 2), 8)])

\* i32 `/`: the quotient is rounded toward zero
DivTrunc(a, b) == IF a >= 0 THEN a \div b ELSE -((-a) \div b)

ALT_MIN_DM == 10000
ALT_THRESHOLD_DM == 32768 - ALT_MIN_DM
ALT_MAX_DM == 32766 * 10 - 5

\* a slip: the threshold itself is still packed in decimeters
get_altitude_packed_Late(altitude_dm) ==
    IF altitude_dm < -ALT_MIN_DM THEN 0
    ELSE IF altitude_dm > ALT_MAX_DM THEN 65534
    ELSE IF altitude_dm <= ALT_THRESHOLD_DM THEN Wrap(altitude_dm + ALT_MIN_DM, 16)
    ELSE Wrap(BitOr(DivTrunc(altitude_dm + 5, 10), 32768), 16)

\* BaroAltitude::get_altitude_packed
get_altitude_packed(altitude_dm) ==
    IF altitude_dm < -ALT_MIN_DM THEN 0
    ELSE IF altitude_dm > ALT_MAX_DM THEN 65534
    ELSE IF altitude_dm < ALT_THRESHOLD_DM THEN Wrap(altitude_dm + ALT_MIN_DM, 16)
    ELSE Wrap(BitOr(DivTrunc(altitude_dm + 5, 10), 32768), 16)

\* a slip: the flag bit is not masked off the meters
get_altitude_dm_NoMask(altitude_packed) ==
    IF BitAnd(altitude_packed, 32768) # 0
    THEN altitude_packed * 10
    ELSE altitude_packed - 10000

\* BaroAltitude::get_altitude_dm
get_altitude_dm(altitude_packed) ==
    IF BitAnd(altitude_packed, 32768) # 0
    THEN BitAnd(altitude_packed, 32767) * 10
    ELSE altitude_packed - 10000

\* Reals are held in millionths. One step of the exponential series:
\* term * c / (1000 * k), where c / 1000 is the exponent; the product is
\* formed in two halves to stay inside 32 bits.
SeriesStep(term, c, k) ==
    LET th == term \div 1000
        tl == term % 1000
    IN  (th * c) \div k + (tl * c + ((th * c) % k) * 1000) \div (1000 * k)

RECURSIVE ExpSeries(_, _, _, _)
ExpSeries(c, k, term, sum) ==
    IF term = 0 THEN sum
    ELSE ExpSeries(c, k + 1, SeriesStep(term, c, k), sum + term)

\* e^(c / 1000) in millionths, c >= 0 (powf(E, x) of libm, to within 50
\* millionths over the exponents used here)
ExpMicro(c) == ExpSeries(c, 1, 1000000, 0)

\* KL = 100.0 and KR = 0.026, the latter in thousandths
KL == 100
KR_MILLI == 26

\* e^(k * KR / 2) for the half steps k of the packed value, computed once
ExpHalfSteps == [k \in 0..450 |-> ExpMicro((KR_MILLI \div 2) * k)]

\* powf(E, m * KR) in millionths, for m >= 0
ExpKR(m) == ExpHalfSteps[2 * m]

\* the integer part of logf(a / KL + 1.0) / KR for a >= 0: the largest m with
\* e^(m * KR) <= a / KL + 1
LogKR(a) ==
    CHOOSE m \in 0..224 :
        /\ ExpKR(m) <= (a + KL) * 10000
        /\ ExpKR(m + 1) > (a + KL) * 10000

\* `as i8` and `as i16` of a float: toward zero, saturating
SatI8(x) == IF x > 127 THEN 127 ELSE IF x < -128 THEN -128 ELSE x

signum(x) == IF x > 0 THEN 1 ELSE IF x < 0 THEN -1 ELSE 0

\* a slip: the float is rounded to the nearest integer before the cast
get_vertical_speed_cm_s_Round(vertical_speed_packed, overflow_checks) ==
    IF vertical_speed_packed = -128
    THEN IF overflow_checks THEN Panic
         ELSE Ok(DivTrunc(((1000000000 \div (ExpKR(128) \div 1000)) - 1000000) * (-1), 10000))
    ELSE LET a == IF vertical_speed_packed < 0 THEN -vertical_speed_packed
                  ELSE vertical_speed_packed
         IN  Ok(((ExpKR(a) - 1000000 + 5000) \div 10000) * signum(vertical_speed_packed))

\* BaroAltitude::get_vertical_speed_cm_s. i8::abs of -128 overflows: a panic
\* with overflow checks, -128 again without, and then the exponent is negative
get_vertical_speed_cm_s(vertical_speed_packed, overflow_checks) ==
    IF vertical_speed_packed = -128
    THEN IF overflow_checks THEN Panic
         ELSE Ok(DivTrunc(((1000000000 \div (ExpKR(128) \div 1000)) - 1000000) * (-1), 10000))
    ELSE LET a == IF vertical_speed_packed < 0 THEN -vertical_speed_packed
                  ELSE vertical_speed_packed
         IN  Ok(DivTrunc((ExpKR(a) - 1000000) * signum(vertical_speed_packed), 10000))

\* BaroAltitude::get_vertical_speed_packed. i16::abs of -32768 overflows: a
\* panic with overflow checks; -32768 again without, and then logf of a
\* negative number is NaN, which `as i8` turns into 0
get_vertical_speed_packed(vertical_speed_cm_s, overflow_checks) ==
    IF vertical_speed_cm_s = -32768
    THEN IF overflow_checks THEN Panic ELSE Ok(0)
    ELSE LET a == IF vertical_speed_cm_s < 0 THEN -vertical_speed_cm_s
                  ELSE vertical_speed_cm_s
         IN  Ok(SatI8(LogKR(a) * signum(vertical_speed_cm_s)))

(***************************************************************************)
(* packets/rpm.rs, temp.rs, voltages.rs: heapless::Vec payloads            *)
(***************************************************************************)
RECURSIVE Concat(_)
Concat(ss) == IF Len(ss) = 0 THEN << >> ELSE Head(ss) \o Concat(Tail(ss))

Rpm_PACKET_TYPE == 12
Rpm_MIN_PAYLOAD_SIZE == 3
Rpm_CAPACITY == 19

\* Rpm::new
Rpm_new(rpm_source_id, rpm_values) ==
    IF Len(rpm_values) = 0 \/ Len(rpm_values) > Rpm_CAPACITY THEN Err(InvalidPayloadLength)
    ELSE Ok([rpm_source_id |-> rpm_source_id, rpm_values |-> rpm_values])

\* no size check: buffer[0] and buffer[i..i + 3] panic past the end
Rpm_to_bytes(r, cap) ==
    IF cap < 1 + 3 * Len(r.rpm_values) THEN Panic
    ELSE Ok(<< r.rpm_source_id >>
            \o Concat([i \in 1..Len(r.rpm_values) |-> Slice(ToBe(r.rpm_values[i], 4), 1, 4)]))

\* (rpm << 8) >> 8 on an i32: the top byte is shifted out, the shift back is
\* arithmetic
SignExtend24(rpm) ==
    LET b == ToBe(rpm, 4) IN I32FromBe(<< b[2], b[3], b[4], 0 >>) \div 256

Rpm_from_bytes(data) ==
    IF Len(data) < Rpm_MIN_PAYLOAD_SIZE THEN Err(InvalidPayloadLength)
    ELSE LET chunks == ChunksExact(Slice(data, 1, Len(data)), 3) IN
         IF Len(chunks) > Rpm_CAPACITY THEN Panic
         ELSE Ok([rpm_source_id |-> At(data, 0),
                  rpm_values |-> [i \in 1..Len(chunks) |->
                                     SignExtend24(I32FromBe(<< 0 >> \o chunks[i]))]])

Temp_PACKET_TYPE == 13
Temp_MIN_PAYLOAD_SIZE == 3
Temp_CAPACITY == 20

\* Temp::new
Temp_new(temp_source_id, temperatures) ==
    IF Len(temperatures) > Temp_CAPACITY THEN Err(InvalidPayloadLength)
    ELSE Ok([temp_source_id |-> temp_source_id, temperatures |-> temperatures])

Temp_to_bytes(r, cap) ==
    LET required_len == 1 + Len(r.temperatures) * 2 IN
    IF cap < required_len THEN Err(BufferOverflow)
    ELSE Ok(<< r.temp_source_id >>
            \o Concat([i \in 1..Len(r.temperatures) |-> ToBe(r.temperatures[i], 2)]))

\* collect() into a heapless Vec<i16, 20> panics on the 21st item
Temp_from_bytes(data) ==
    IF Len(data) < Temp_MIN_PAYLOAD_SIZE THEN Err(InvalidPayloadLength)
    ELSE LET chunks == ChunksExact(Slice(data, 1, Len(data)), 2) IN
         IF Len(chunks) > Temp_CAPACITY THEN Panic
         ELSE Ok([temp_source_id |-> At(data, 0),
                  temperatures |-> [i \in 1..Len(chunks) |-> Signed(FromBe(chunks[i]), 16)]])

Voltages_PACKET_TYPE == 14
Voltages_MIN_PAYLOAD_SIZE == 3
Voltages_CAPACITY == 29

\* Voltages::new
Voltages_new(voltage_source_id, voltage_values) ==
    IF Len(voltage_values) > Voltages_CAPACITY THEN Err(InvalidPayloadLength)
    ELSE Ok([voltage_source_id |-> voltage_source_id, voltage_values |-> voltage_values])

Voltages_to_bytes(r, cap) ==
    LET required_len == 1 + Len(r.voltage_values) * 2 IN
    IF cap < required_len THEN Err(BufferOverflow)
    ELSE Ok(<< r.voltage_source_id >>
            \o Concat([i \in 1..Len(r.voltage_values) |-> ToBe(r.voltage_values[i], 2)]))

Voltages_from_bytes(data) ==
    IF Len(data) < Voltages_MIN_PAYLOAD_SIZE THEN Err(InvalidPayloadLength)
    ELSE LET chunks == ChunksExact(Slice(data, 1, Len(data)), 2) IN
         IF Len(chunks) > Voltages_CAPACITY THEN Panic
         ELSE Ok([voltage_source_id |-> At(data, 0),
                  voltage_values |-> [i \in 1..Len(chunks) |-> FromBe(chunks[i])]])

(***************************************************************************)
(* packets/vtx_telemetry.rs, heartbeat.rs, esp_now.rs, mavlink_fc.rs       *)
(***************************************************************************)
VtxTelemetry_PACKET_TYPE == 16
VtxTelemetry_MIN_PAYLOAD_SIZE == 10

VtxTelemetry_to_bytes(r, cap) ==
    IF ~validate_buffer_size(cap, VtxTelemetry_MIN_PAYLOAD_SIZE) THEN Err(BufferOverflow)
    ELSE Ok(<< r.up_rssi_ant1, r.up_rssi_ant2, r.up_link_quality, U8(r.up_snr),
               r.active_antenna, r.rf_profile, r.up_rf_power, r.down_rssi,
               r.down_link_quality, U8(r.down_snr) >>)

VtxTelemetry_from_bytes(data) ==
    IF Len(data) # VtxTelemetry_MIN_PAYLOAD_SIZE THEN Err(InvalidPayloadLength)
    ELSE Ok([up_rssi_ant1 |-> At(data, 0), up_rssi_ant2 |-> At(data, 1),
             up_link_quality |-> At(data, 2), up_snr |-> Signed(At(data, 3), 8),
             active_antenna |-> At(data, 4), rf_profile |-> At(data, 5),
             up_rf_power |-> At(data, 6), down_rssi |-> At(data, 7),
             down_link_quality |-> At(data, 8), down_snr |-> Signed(At(data, 9), 8)])

Heartbeat_PACKET_TYPE == 11
Heartbeat_MIN_PAYLOAD_SIZE == 2

\* no size check: buffer[0..2] panics on a shorter buffer
Heartbeat_to_bytes(r, cap) ==
    IF cap < 2 THEN Panic ELSE Ok(ToBe(r.origin_address, 2))

Heartbeat_from_bytes(data) ==
    IF Len(data) # Heartbeat_MIN_PAYLOAD_SIZE THEN Err(InvalidPayloadLength)
    ELSE Ok([origin_address |-> Signed(FromBe(Slice(data, 0, 2)), 16)])

EspNow_PACKET_TYPE == 34
EspNow_MIN_PAYLOAD_SIZE == 2 * 1 + 2 * 15 + 20

EspNow_to_bytes(r, cap) ==
    IF ~validate_buffer_size(cap, EspNow_MIN_PAYLOAD_SIZE) THEN Err(BufferOverflow)
    ELSE Ok(<< r.val1, r.val2 >> \o r.val3 \o r.val4 \o r.free_text)

EspNow_from_bytes(data) ==
    IF Len(data) # EspNow_MIN_PAYLOAD_SIZE THEN Err(InvalidPayloadLength)
    ELSE Ok([val1 |-> At(data, 0), val2 |-> At(data, 1),
             val3 |-> Slice(data, 2, 17), val4 |-> Slice(data, 17, 32),
             free_text |-> Slice(data, 32, 52)])

MavLinkFc_PACKET_TYPE == 31
MavLinkFc_MIN_PAYLOAD_SIZE == 9

MavLinkFc_to_bytes(r, cap) ==
    IF ~validate_buffer_size(cap, MavLinkFc_MIN_PAYLOAD_SIZE) THEN Err(BufferOverflow)
    ELSE Ok(ToBe(r.airspeed, 2) \o << r.base_mode >> \o U32ToBe(r.custom_mode)
            \o << r.autopilot_type, r.firmware_type >>)

MavLinkFc_from_bytes(data) ==
    IF Len(data) = MavLinkFc_MIN_PAYLOAD_SIZE
    THEN Ok([airspeed |-> Signed(FromBe(Slice(data, 0, 2)), 16),
             base_mode |-> At(data, 2),
             custom_mode |-> U32FromBe(Slice(data, 3, 7)),
             autopilot_type |-> At(data, 7), firmware_type |-> At(data, 8)])
    ELSE Err(InvalidPayloadLength)

(***************************************************************************)
(* packets/flight_mode.rs                                                  *)
(***************************************************************************)
FlightMode_PACKET_TYPE == 33
FlightMode_MIN_PAYLOAD_SIZE == 1
MAX_FLIGHT_MODE_LEN == 59

Cont(b) == b >= 128 /\ b <= 191

RECURSIVE Utf8Valid(_)
\* core::str::from_utf8(s).is_ok()
Utf8Valid(s) ==
    IF Len(s) = 0 THEN TRUE
    ELSE LET b == s[1]
             n == Len(s)
         IN  IF b < 128 THEN Utf8Valid(Tail(s))
             ELSE IF b >= 194 /\ b <= 223
                  THEN n >= 2 /\ Cont(s[2]) /\ Utf8Valid(SubSeq(s, 3, n))
             ELSE IF b >= 224 /\ b <= 239
                  THEN /\ n >= 3
                       /\ Cont(s[2]) /\ Cont(s[3])
                       /\ (b = 224 => s[2] >= 160)
                       /\ (b = 237 => s[2] <= 159)
                       /\ Utf8Valid(SubSeq(s, 4, n))
             ELSE IF b >= 240 /\ b <= 244
                  THEN /\ n >= 4
                       /\ Cont(s[2]) /\ Cont(s[3]) /\ Cont(s[4])
                       /\ (b = 240 => s[2] >= 144)
                       /\ (b = 244 => s[2] <= 143)
                       /\ Utf8Valid(SubSeq(s, 5, n))
             ELSE FALSE

\* FlightMode::new(&str): the argument is the str's UTF-8 bytes
FlightMode_new(flight_mode) ==
    IF Len(flight_mode) > MAX_FLIGHT_MODE_LEN THEN Err(InvalidPayloadLength)
    ELSE Ok([flight_mode |-> flight_mode])

FlightMode_to_bytes(r, cap) ==
    LET bytes == r.flight_mode
        len_with_null == Len(bytes) + 1
    IN  IF cap < len_with_null THEN Err(BufferOverflow)
        ELSE Ok(bytes \o << 0 >>)

\* data.iter().position(|&b| b == 0).unwrap_or(data.len())
NullPos(data) ==
    IF \E i \in 1..Len(data) : data[i] = 0
    THEN (CHOOSE i \in 1..Len(data) : data[i] = 0 /\ \A j \in 1..(i - 1) : data[j] # 0) - 1
    ELSE Len(data)

FlightMode_from_bytes(data) ==
    LET null_pos == NullPos(data)
        s == Slice(data, 0, null_pos)
    IN  IF ~Utf8Valid(s) THEN Err(InvalidPayload)
        ELSE IF Len(s) > MAX_FLIGHT_MODE_LEN THEN Err(InvalidPayloadLength)
        ELSE Ok([flight_mode |-> s])

(***************************************************************************)
(* packets/mavlink_envelope.rs                                             *)
(***************************************************************************)
MavlinkEnvelope_PACKET_TYPE == 170
MavlinkEnvelope_MIN_PAYLOAD_SIZE == 2
MavlinkEnvelope_CAPACITY == 58

\* MavlinkEnvelope::new
MavlinkEnvelope_new(total_chunks, current_chunk, data) ==
    IF Len(data) > MavlinkEnvelope_CAPACITY THEN Err(InvalidPayloadLength)
    ELSE Ok([total_chunks |-> total_chunks, current_chunk |-> current_chunk, data |-> data])

MavlinkEnvelope_to_bytes(r, cap) ==
    LET data_size == Len(r.data) IN
    IF cap < 2 + data_size THEN Err(BufferOverflow)
    ELSE Ok(<< BitOr(Wrap(r.total_chunks * 16, 8), BitAnd(r.current_chunk, 15)),
               U8(data_size) >> \o r.data)

MavlinkEnvelope_from_bytes(data) ==
    IF Len(data) < MavlinkEnvelope_MIN_PAYLOAD_SIZE THEN Err(InvalidPayloadLength)
    ELSE LET total_chunks == Shr(At(data, 0), 4)
             current_chunk == BitAnd(At(data, 0), 15)
             data_size == At(data, 1)
         IN  IF Len(data) < 2 + data_size THEN Err(InvalidPayloadLength)
             ELSE IF data_size > MavlinkEnvelope_CAPACITY THEN Err(InvalidPayloadLength)
             ELSE Ok([total_chunks |-> total_chunks, current_chunk |-> current_chunk,
                      data |-> Slice(data, 2, 2 + data_size)])

(***************************************************************************)
(* packets/remote.rs                                                       *)
(***************************************************************************)
TIMING_CORRECTION_SUB_TYPE == 16
\* size_of::<u32>() + size_of::<i32>()
TIMING_CORRECTION_PAYLOAD_SIZE == 4 + 4

Remote_PACKET_TYPE == 58
Remote_MIN_PAYLOAD_SIZE == 2 + 1 + TIMING_CORRECTION_PAYLOAD_SIZE

TimingCorrection(update_interval, offset) ==
    [variant |-> "TimingCorrection", update_interval |-> update_interval, offset |-> offset]

Remote_from_bytes(data) ==
    IF Len(data) < 3 THEN Err(InvalidPayloadLength)
    ELSE LET sub_type == At(data, 2)
             sub_payload == Slice(data, 3, Len(data))
         IN  IF sub_type = TIMING_CORRECTION_SUB_TYPE
             THEN IF Len(sub_payload) < TIMING_CORRECTION_PAYLOAD_SIZE
                  THEN Err(InvalidPayloadLength)
                  ELSE Ok([dst_addr |-> At(data, 0), src_addr |-> At(data, 1),
                           payload |-> TimingCorrection(
                               U32FromBe(Slice(sub_payload, 0, 4)),
                               I32FromBe(Slice(sub_payload, 4, TIMING_CORRECTION_PAYLOAD_SIZE)))])
             ELSE Err(InvalidPayload)

Remote_to_bytes(r, cap) ==
    IF cap < 2 + 1 + TIMING_CORRECTION_PAYLOAD_SIZE THEN Err(BufferOverflow)
    ELSE Ok(<< r.dst_addr, r.src_addr, TIMING_CORRECTION_SUB_TYPE >>
            \o U32ToBe(r.payload.update_interval) \o ToBe(r.payload.offset, 4))

(***************************************************************************)
(* packets/mod.rs: Packet, Packet::parse, write_packet_to_buffer           *)
(***************************************************************************)
Wrapped(variant, r) ==
    IF r.tag = "Ok" THEN Ok([variant |-> variant, rec |-> r.val]) ELSE r

NotImlemented(packet_type, len) ==
    [variant |-> "NotImlemented", packet_type |-> packet_type, len |-> len]

\* Packet::parse
Packet_parse(raw_packet) ==
    LET t == raw_packet_type(raw_packet)
        data == payload(raw_packet)
    IN  IF t \notin PacketType THEN Err(UnexpectedPacketType(t))
        ELSE CASE t = LinkStatistics_PACKET_TYPE -> Wrapped("LinkStatistics", LinkStatistics_from_bytes(data))
               [] t = LinkStatisticsTx_PACKET_TYPE -> Wrapped("LinkStatisticsTx", LinkStatisticsTx_from_bytes(data))
               [] t = LinkStatisticsRx_PACKET_TYPE -> Wrapped("LinkStatisticsRx", LinkStatisticsRx_from_bytes(data))
               [] t = RcChannelsPacked_PACKET_TYPE -> Wrapped("RCChannels", RcChannelsPacked_from_bytes(data))
               [] t = Gps_PACKET_TYPE -> Wrapped("Gps", Gps_from_bytes(data))
               [] t = GpsTime_PACKET_TYPE -> Wrapped("GpsTime", GpsTime_from_bytes(data))
               [] t = GpsExtended_PACKET_TYPE -> Wrapped("GpsExtended", GpsExtended_from_bytes(data))
               [] t = AirSpeed_PACKET_TYPE -> Wrapped("AirSpeed", AirSpeed_from_bytes(data))
               [] t = BaroAltitude_PACKET_TYPE -> Wrapped("BaroAltitude", BaroAltitude_from_bytes(data))
               [] t = Battery_PACKET_TYPE -> Wrapped("Battery", Battery_from_bytes(data))
               [] t = FlightMode_PACKET_TYPE -> Wrapped("FlightMode", FlightMode_from_bytes(data))
               [] t = Rpm_PACKET_TYPE -> Wrapped("Rpm", Rpm_from_bytes(data))
               [] t = Temp_PACKET_TYPE -> Wrapped("Temp", Temp_from_bytes(data))
               [] t = Voltages_PACKET_TYPE -> Wrapped("Voltages", Voltages_from_bytes(data))
               [] t = VtxTelemetry_PACKET_TYPE -> Wrapped("VtxTelemetry", VtxTelemetry_from_bytes(data))
               [] t = VariometerSensor_PACKET_TYPE -> Wrapped("Vario", VariometerSensor_from_bytes(data))
               [] t = EspNow_PACKET_TYPE -> Wrapped("EspNow", EspNow_from_bytes(data))
               [] t = Heartbeat_PACKET_TYPE -> Wrapped("Heartbeat", Heartbeat_from_bytes(data))
               [] t = MavLinkFc_PACKET_TYPE -> Wrapped("MavLinkFc", MavLinkFc_from_bytes(data))
               [] t = MavlinkEnvelope_PACKET_TYPE -> Wrapped("MavlinkEnvelope", MavlinkEnvelope_from_bytes(data))
               [] OTHER -> Ok(NotImlemented(t, Len(payload(raw_packet))))

\* a slip: a decode error is swallowed and reported as Incomplete
push_byte_Swallow(p, byte) ==
    LET r == push_byte_raw(p, byte) IN
    IF r.result.kind = "Complete"
    THEN LET d == Packet_parse(r.result.val) IN
         [parser |-> r.parser,
          result |-> CASE d.tag = "Ok" -> Complete(d.val)
                       [] d.tag = "Err" -> Incomplete
                       [] OTHER -> Abort]
    ELSE r

\* CrsfParser::push_byte
push_byte(p, byte) ==
    LET r == push_byte_raw(p, byte) IN
    IF r.result.kind = "Complete"
    THEN LET d == Packet_parse(r.result.val) IN
         [parser |-> r.parser,
          result |-> CASE d.tag = "Ok" -> Complete(d.val)
                       [] d.tag = "Err" -> Error(ParsingError(d.err))
                       [] OTHER -> Abort]
    ELSE r

\* T::PACKET_TYPE as u8 of the record inside a Packet
PACKET_TYPE(variant) ==
    CASE variant = "LinkStatistics" -> LinkStatistics_PACKET_TYPE
      [] variant = "LinkStatisticsTx" -> LinkStatisticsTx_PACKET_TYPE
      [] variant = "LinkStatisticsRx" -> LinkStatisticsRx_PACKET_TYPE
      [] variant = "RCChannels" -> RcChannelsPacked_PACKET_TYPE
      [] variant = "Gps" -> Gps_PACKET_TYPE
      [] variant = "GpsTime" -> GpsTime_PACKET_TYPE
      [] variant = "GpsExtended" -> GpsExtended_PACKET_TYPE
      [] variant = "AirSpeed" -> AirSpeed_PACKET_TYPE
      [] variant = "BaroAltitude" -> BaroAltitude_PACKET_TYPE
      [] variant = "Battery" -> Battery_PACKET_TYPE
      [] variant = "FlightMode" -> FlightMode_PACKET_TYPE
      [] variant = "Rpm" -> Rpm_PACKET_TYPE
      [] variant = "Temp" -> Temp_PACKET_TYPE
      [] variant = "Voltages" -> Voltages_PACKET_TYPE
      [] variant = "VtxTelemetry" -> VtxTelemetry_PACKET_TYPE
      [] variant = "Vario" -> VariometerSensor_PACKET_TYPE
      [] variant = "EspNow" -> EspNow_PACKET_TYPE
      [] variant = "Heartbeat" -> Heartbeat_PACKET_TYPE
      [] variant = "MavLinkFc" -> MavLinkFc_PACKET_TYPE
      [] variant = "MavlinkEnvelope" -> MavlinkEnvelope_PACKET_TYPE
      [] variant = "Remote" -> Remote_PACKET_TYPE

\* packet.to_bytes(&mut buffer) with buffer.len() = cap, by the record's type
to_bytes(packet, cap) ==
    LET variant == packet.variant
        r == packet.rec
    IN  CASE variant = "LinkStatistics" -> LinkStatistics_to_bytes(r, cap)
          [] variant = "LinkStatisticsTx" -> LinkStatisticsTx_to_bytes(r, cap)
          [] variant = "LinkStatisticsRx" -> LinkStatisticsRx_to_bytes(r, cap)
          [] variant = "RCChannels" -> RcChannelsPacked_to_bytes(r, cap)
          [] variant = "Gps" -> Gps_to_bytes(r, cap)
          [] variant = "GpsTime" -> GpsTime_to_bytes(r, cap)
          [] variant = "GpsExtended" -> GpsExtended_to_bytes(r, cap)
          [] variant = "AirSpeed" -> AirSpeed_to_bytes(r, cap)
          [] variant = "BaroAltitude" -> BaroAltitude_to_bytes(r, cap)
          [] variant = "Battery" -> Battery_to_bytes(r, cap)
          [] variant = "FlightMode" -> FlightMode_to_bytes(r, cap)
          [] variant = "Rpm" -> Rpm_to_bytes(r, cap)
          [] variant = "Temp" -> Temp_to_bytes(r, cap)
          [] variant = "Voltages" -> Voltages_to_bytes(r, cap)
          [] variant = "VtxTelemetry" -> VtxTelemetry_to_bytes(r, cap)
          [] variant = "Vario" -> VariometerSensor_to_bytes(r, cap)
          [] variant = "EspNow" -> EspNow_to_bytes(r, cap)
          [] variant = "Heartbeat" -> Heartbeat_to_bytes(r, cap)
          [] variant = "MavLinkFc" -> MavLinkFc_to_bytes(r, cap)
          [] variant = "MavlinkEnvelope" -> MavlinkEnvelope_to_bytes(r, cap)
          [] variant = "Remote" -> Remote_to_bytes(r, cap)

MAX_PAYLOAD_SIZE == CRSF_MAX_PACKET_SIZE - 4

\* a slip: the digest is taken over the payload without the type byte
write_packet_to_buffer_CrcNoType(buf, dest, packet) ==
    LET enc == to_bytes(packet, MAX_PAYLOAD_SIZE) IN
    IF enc.tag # "Ok" THEN [ret |-> enc, buffer |-> buf]
    ELSE LET payload_size == Len(enc.val)
             total_frame_size == payload_size + 4
             length_byte == U8(payload_size + 2)
             body == << PACKET_TYPE(packet.variant) >> \o enc.val
             calculated_crc == Crc8(enc.val)
             frame == << dest, length_byte >> \o body \o << calculated_crc >>
         IN  IF Len(buf) < total_frame_size
             THEN [ret |-> Err(BufferOverflow), buffer |-> buf]
             ELSE [ret |-> Ok(total_frame_size),
                   buffer |-> frame \o SubSeq(buf, total_frame_size + 1, Len(buf))]

\* a slip: the destination byte is written before the size check
write_packet_to_buffer_WritesFirst(buf, dest, packet) ==
    LET enc == to_bytes(packet, MAX_PAYLOAD_SIZE) IN
    IF enc.tag # "Ok" THEN [ret |-> enc, buffer |-> buf]
    ELSE LET payload_size == Len(enc.val)
             total_frame_size == payload_size + 4
             length_byte == U8(payload_size + 2)
             body == << PACKET_TYPE(packet.variant) >> \o enc.val
             calculated_crc == Crc8(body)
             frame == << dest, length_byte >> \o body \o << calculated_crc >>
         IN  IF Len(buf) < total_frame_size
             THEN [ret |-> Err(BufferOverflow),
                   buffer |-> IF Len(buf) > 0 THEN << dest >> \o Tail(buf) ELSE buf]
             ELSE [ret |-> Ok(total_frame_size),
                   buffer |-> frame \o SubSeq(buf, total_frame_size + 1, Len(buf))]

\* write_packet_to_buffer: buf is the caller's buffer (a sequence), the result
\* carries what was returned and the buffer afterwards
write_packet_to_buffer(buf, dest, packet) ==
    LET enc == to_bytes(packet, MAX_PAYLOAD_SIZE) IN
    IF enc.tag # "Ok" THEN [ret |-> enc, buffer |-> buf]
    ELSE LET payload_size == Len(enc.val)
             total_frame_size == payload_size + 4
             length_byte == U8(payload_size + 2)
             body == << PACKET_TYPE(packet.variant) >> \o enc.val
             calculated_crc == Crc8(body)
             frame == << dest, length_byte >> \o body \o << calculated_crc >>
         IN  IF Len(buf) < total_frame_size
             THEN [ret |-> Err(BufferOverflow), buffer |-> buf]
             ELSE [ret |-> Ok(total_frame_size),
                   buffer |-> frame \o SubSeq(buf, total_frame_size + 1, Len(buf))]

(***************************************************************************)
(* The parser as a state machine: one CrsfParser driven byte by byte       *)
(***************************************************************************)
Parser == [buffer |-> buffer, state |-> state, position |-> position]

NoResult == [op |-> "none", ret |-> [kind |-> "None"]]
NoScen == [name |-> "free"]

\* the variables the byte-by-byte driver does not touch
NoIter == [live |-> FALSE, whole |-> FALSE, buffer |-> << >>, pos |-> 0]
Idle == input = << >> /\ pos = 0 /\ limit = 0 /\ out = << >> /\ iter = NoIter

\* The bytes the environment sends are a sample of 0..255 chosen by what the
\* parser awaits, so that every arm of push_byte_raw is taken both ways:
\* 200 is an address, 62 and 1 are not; 2 and 4 are lengths, 1 and 62 are not;
\* 2 is Gps, 170 MavlinkEnvelope, 120 a packet type without a codec, 200 no
\* packet type; a payload byte is 0 or an address; a CRC byte is 0 or matches.
SyncBytes == { 200, 62 }
LenBytes == { 1, 2, 4, 62 }
TypeBytes == { 2, 120, 170, 200 }
PayloadBytes == { 0, 200 }

\* the CRC byte that completes the frame held in p's buffer
MatchingCrc(p) == Crc8(BufSlice(p.buffer, 2, p.position + 1))

InputBytes(p) ==
    CASE p.state = AwaitingSync -> SyncBytes
      [] p.state = AwaitingLenth -> LenBytes
      [] p.state.tag = "Reading" -> IF p.position = 1 THEN TypeBytes ELSE PayloadBytes
      [] p.state = AwaitingCrc -> { 0, MatchingCrc(p) }

Init ==
    /\ buffer = CrsfParser_new.buffer
    /\ state = CrsfParser_new.state
    /\ position = CrsfParser_new.position
    /\ result = NoResult
    /\ Idle
    /\ scen = NoScen
    /\ aborted = FALSE

SetParser(p) ==
    /\ buffer' = p.buffer
    /\ state' = p.state
    /\ position' = p.position

\* one call of push_byte_raw
PushByteRaw(b) ==
    /\ ~aborted
    /\ LET r == push_byte_raw(Parser, b) IN
        /\ SetParser(r.parser)
        /\ result' = [op |-> "push_byte_raw", ret |-> r.result]
        /\ aborted' = (r.result.kind = "Abort")
    /\ UNCHANGED <<input, pos, limit, out, scen, iter>>

\* one call of push_byte
PushByte(b) ==
    /\ ~aborted
    /\ LET r == push_byte(Parser, b) IN
        /\ SetParser(r.parser)
        /\ result' = [op |-> "push_byte", ret |-> r.result]
        /\ aborted' = (r.result.kind = "Abort")
    /\ UNCHANGED <<input, pos, limit, out, scen, iter>>

\* one call of reset
Reset ==
    /\ ~aborted
    /\ SetParser(reset(Parser))
    /\ result' = [op |-> "reset", ret |-> [kind |-> "None"]]
    /\ UNCHANGED <<input, pos, limit, out, scen, aborted, iter>>

PushRawAny == \E b \in InputBytes(Parser) : PushByteRaw(b)
PushAny == \E b \in InputBytes(Parser) : PushByte(b)

Next == PushRawAny \/ PushAny \/ Reset

Spec == Init /\ [][Next]_vars

(***************************************************************************)
(* Encode, then parse: write_packet_to_buffer into a zeroed buffer, then    *)
(* push buf[0..n] byte by byte through push_byte                            *)
(* (tests/integration_test.rs, packets/mod.rs tests)                        *)
(***************************************************************************)
DestBufLen == 64

\* a well-formed frame around a type byte and a payload
MkFrame(addr, t, data) ==
    << addr, Len(data) + 2, t >> \o data \o << Crc8(<< t >> \o data) >>

\* payload byte patterns: all zero, all ones, a ramp
PatternPayload(n, s) ==
    [i \in 1..n |-> CASE s = 0 -> 0 [] s = 1 -> 255 [] OTHER -> (11 + 37 * i) % 256]

\* the type byte and a payload length of each codec Packet::parse dispatches
CodecShapes ==
    { << LinkStatistics_PACKET_TYPE, 10 >>, << LinkStatisticsTx_PACKET_TYPE, 6 >>,
      << LinkStatisticsRx_PACKET_TYPE, 5 >>, << RcChannelsPacked_PACKET_TYPE, 22 >>,
      << Gps_PACKET_TYPE, 15 >>, << GpsTime_PACKET_TYPE, 9 >>,
      << GpsExtended_PACKET_TYPE, 20 >>, << AirSpeed_PACKET_TYPE, 2 >>,
      << BaroAltitude_PACKET_TYPE, 3 >>, << Battery_PACKET_TYPE, 8 >>,
      << FlightMode_PACKET_TYPE, 4 >>, << Rpm_PACKET_TYPE, 7 >>,
      << Temp_PACKET_TYPE, 5 >>, << Voltages_PACKET_TYPE, 5 >>,
      << VtxTelemetry_PACKET_TYPE, VtxTelemetry_MIN_PAYLOAD_SIZE >>,
      << VariometerSensor_PACKET_TYPE, 2 >>, << EspNow_PACKET_TYPE, 52 >>,
      << Heartbeat_PACKET_TYPE, 2 >>, << MavLinkFc_PACKET_TYPE, 9 >>,
      << MavlinkEnvelope_PACKET_TYPE, 2 >> }

\* records of every codec: the values the three patterns decode to
PatternPackets ==
    LET ds == { Packet_parse(MkFrame(CRSF_SYNC_BYTE, c[1], PatternPayload(c[2], s))) :
                    c \in CodecShapes, s \in 0..2 }
    IN  { d.val : d \in { e \in ds : e.tag = "Ok" } }

Repeat(b, n) == [i \in 1..n |-> b]

\* records built by the constructors, at and around the limits of their types
BoundaryPackets ==
    LET made ==
          { Wrapped("FlightMode", FlightMode_new(Repeat(65, MAX_FLIGHT_MODE_LEN))),
            Wrapped("FlightMode", FlightMode_new(Repeat(65, MAX_FLIGHT_MODE_LEN - 1))),
            Wrapped("FlightMode", FlightMode_new(<< 65, 0, 66 >>)),
            Wrapped("MavlinkEnvelope",
                    MavlinkEnvelope_new(1, 0, Repeat(7, MavlinkEnvelope_CAPACITY))),
            Wrapped("MavlinkEnvelope",
                    MavlinkEnvelope_new(1, 0, Repeat(7, MavlinkEnvelope_CAPACITY - 1))),
            Wrapped("MavlinkEnvelope", MavlinkEnvelope_new(3, 1, << 1, 2, 3 >>)),
            Wrapped("MavlinkEnvelope", MavlinkEnvelope_new(16, 0, << 1 >>)),
            Wrapped("Temp", Temp_new(1, << >>)),
            Wrapped("Temp", Temp_new(1, << -5, 300 >>)),
            Wrapped("Temp", Temp_new(1, Repeat(250, Temp_CAPACITY))),
            Wrapped("Rpm", Rpm_new(1, << 100, -100 >>)),
            Wrapped("Rpm", Rpm_new(1, << 8388608 >>)),
            Wrapped("Rpm", Rpm_new(1, Repeat(1000, Rpm_CAPACITY))),
            Wrapped("Voltages", Voltages_new(0, << >>)),
            Wrapped("Voltages", Voltages_new(0, Repeat(4200, Voltages_CAPACITY))) }
    IN  { m.val : m \in { e \in made : e.tag = "Ok" } }
        \cup { [variant |-> "Battery",
                rec |-> [voltage |-> 168, current |-> -20,
                         capacity_used |-> U32(256, 0), remaining |-> 50]] }

SamplePackets == PatternPackets \cup BoundaryPackets

\* FlightController, Broadcast, CrsfTransmitter
SampleDest == { 200, 0, 238 }

InitRoundTrip ==
    /\ buffer = CrsfParser_new.buffer
    /\ state = CrsfParser_new.state
    /\ position = CrsfParser_new.position
    /\ result = NoResult
    /\ Idle
    /\ scen \in { [name |-> "roundtrip", packet |-> pk, dest |-> d] :
                    pk \in SamplePackets, d \in SampleDest }
    /\ aborted = FALSE

\* write_packet_to_buffer(&mut buf, dest, &packet) on a zeroed buffer
WritePacket ==
    /\ result.op = "none"
    /\ LET w == write_packet_to_buffer(Repeat(0, DestBufLen), scen.dest, scen.packet) IN
        /\ input' = IF w.ret.tag = "Ok" THEN Slice(w.buffer, 0, w.ret.val) ELSE << >>
        /\ limit' = IF w.ret.tag = "Ok" THEN w.ret.val ELSE 0
        /\ result' = [op |-> "write_packet_to_buffer", ret |-> w.ret]
        /\ aborted' = (w.ret.tag = "Panic")
    /\ UNCHANGED <<buffer, state, position, pos, out, scen, iter>>

\* the next byte of the input goes through push_byte
FeedByte ==
    /\ ~aborted
    /\ pos < Len(input)
    /\ LET r == push_byte(Parser, input[pos + 1]) IN
        /\ SetParser(r.parser)
        /\ result' = [op |-> "push_byte", ret |-> r.result]
        /\ out' = Append(out, r.result)
        /\ aborted' = (r.result.kind = "Abort")
    /\ pos' = pos + 1
    /\ UNCHANGED <<input, limit, scen, iter>>

NextRoundTrip == WritePacket \/ FeedByte

SpecRoundTrip == InitRoundTrip /\ [][NextRoundTrip]_vars

\* C1: when write_packet_to_buffer returns Ok(n), pushing buf[0..n] into a
\* fresh parser returns Incomplete for the first n-1 bytes and, on the last,
\* Complete of the record that was written.
C1_RoundTrip ==
    scen.name = "roundtrip" =>
        \A i \in 1..Len(out) :
            out[i] = IF i < limit THEN Incomplete ELSE Complete(scen.packet)

\* the round trip does succeed for a record: the last byte returned it
C1_Reached ==
    /\ scen.name = "roundtrip"
    /\ limit > 0 /\ pos = limit
    /\ out[limit] = Complete(scen.packet)

(***************************************************************************)
(* Frames pushed through push_byte_raw, byte by byte                         *)
(***************************************************************************)
\* address, length in [4, 64), length byte, CRC: what push_byte_raw accepts
WellFormed(f) ==
    /\ Len(f) >= CRSF_MIN_PACKET_SIZE /\ Len(f) < CRSF_MAX_PACKET_SIZE
    /\ At(f, 0) \in PacketAddress
    /\ At(f, 1) = Len(f) - CRSF_PACKET_HEADER_LEN
    /\ f[Len(f)] = Crc8(Slice(f, 2, Len(f) - 1))

\* the frame of test_construction (parser.rs) and integration_test.rs
F_LinkStats == << 200, 12, 20, 16, 19, 99, 151, 1, 2, 3, 8, 88, 148, 252 >>
\* the shortest frame: no payload, a type without a codec
F_Min == MkFrame(200, 120, << >>)
\* the longest frame the parser accepts: 63 bytes
F_Max == MkFrame(238, FlightMode_PACKET_TYPE, Repeat(65, 58) \o << 0 >>)
\* an AirSpeed frame whose payload looks like the start of a frame
F_Embedded == MkFrame(200, AirSpeed_PACKET_TYPE, << 200, 4 >>)
\* the second frame of test_parsing (parser.rs)
F_RcChannels ==
    << 200, 24, 22, 224, 3, 31, 88, 192, 7, 22, 176, 128, 5, 44, 96, 1, 11,
       248, 192, 7, 0, 0, 0, 0, 0, 103 >>

SampleFrames == { F_LinkStats, F_Min, F_Max, F_Embedded, F_RcChannels }

WithLast(f, c) == [f EXCEPT ![Len(f)] = c]

\* the next byte of the input goes through push_byte_raw
FeedRaw ==
    /\ ~aborted
    /\ pos < Len(input)
    /\ LET r == push_byte_raw(Parser, input[pos + 1]) IN
        /\ SetParser(r.parser)
        /\ result' = [op |-> "push_byte_raw", ret |-> r.result]
        /\ out' = Append(out, r.result)
        /\ aborted' = (r.result.kind = "Abort")
    /\ pos' = pos + 1
    /\ UNCHANGED <<input, limit, scen, iter>>

FreshParser ==
    /\ buffer = CrsfParser_new.buffer
    /\ state = CrsfParser_new.state
    /\ position = CrsfParser_new.position
    /\ result = NoResult
    /\ aborted = FALSE

\* a frame of the sample with its last byte set to any value
InitCrc ==
    /\ FreshParser
    /\ scen \in { [name |-> "crc", frame |-> f, last |-> c] : f \in SampleFrames, c \in Byte }
    /\ input = WithLast(scen.frame, scen.last)
    /\ pos = 0 /\ limit = Len(input) /\ out = << >> /\ iter = NoIter

SpecCrc == InitCrc /\ [][FeedRaw]_vars

\* C9: pushing a well-formed frame f yields Incomplete for every byte but the
\* last and Complete(f) on the last; with the last byte replaced by a different
\* value c the last byte yields Error(InvalidCrc) carrying the digest of type
\* plus payload and c, and no Complete.
C9_CrcGate ==
    (scen.name = "crc" /\ pos = Len(input)) =>
        LET f == scen.frame
            n == Len(f)
        IN  /\ WellFormed(f)
            /\ out = [i \in 1..n |->
                        IF i < n THEN Incomplete
                        ELSE IF scen.last = f[n] THEN Complete(f)
                        ELSE Error(InvalidCrc(Crc8(Slice(f, 2, n - 1)), scen.last))]

\* a frame with a replaced CRC byte was pushed to its end and gave an error
C9_Witness ==
    /\ scen.name = "crc"
    /\ pos = Len(input)
    /\ scen.last # scen.frame[Len(scen.frame)]
    /\ out[Len(out)].kind = "Error"

\* the intact frame was pushed to its end and came back
C9_WitnessIntact ==
    /\ scen.name = "crc"
    /\ pos = Len(input)
    /\ out[Len(out)] = Complete(scen.frame)

\* what the parser was fed before the stray byte: a completed frame, a byte
\* that is no address, a bad length, a bad CRC, garbage then a frame, and a
\* frame cut short (which ends in Incomplete)
SamplePrefixes ==
    { F_LinkStats, << 62 >>, << 200, 1 >>, WithLast(F_Embedded, 0),
      << 1, 2, 3 >> \o F_Min, << 200, 4, 10 >> }

StrayFrames == { F_LinkStats, F_Min, F_Embedded }

InitStray ==
    /\ FreshParser
    /\ scen \in { [name |-> "stray", prefix |-> p, stray |-> b, frame |-> f] :
                    p \in SamplePrefixes, b \in Byte, f \in StrayFrames }
    /\ input = scen.prefix \o << scen.stray >> \o scen.frame
    /\ pos = 0 /\ limit = Len(input) /\ out = << >> /\ iter = NoIter

SpecStray == InitStray /\ [][FeedRaw]_vars

\* the prefix ended with a completed frame or with an error
PrefixEnded == out[Len(scen.prefix)].kind \in { "Complete", "Error" }

StrayDone == scen.name = "stray" /\ pos = Len(input)

\* C2 as stated: after a prefix that ends with a completed frame or an error,
\* any one byte b followed by a well-formed frame makes the parser return
\* Complete for that frame.
C2_AnyStrayByte ==
    (StrayDone /\ PrefixEnded) => out[Len(out)] = Complete(scen.frame)

\* C2, amended: the same for every byte b that is not a member of
\* PacketAddress; b is answered with Error(InvalidSync) and the frame's last
\* byte with Complete of the frame.
C2_StrayNonAddress ==
    (StrayDone /\ PrefixEnded /\ scen.stray \notin PacketAddress) =>
        /\ WellFormed(scen.frame)
        /\ out[Len(scen.prefix) + 1] = Error(InvalidSync)
        /\ out[Len(out)] = Complete(scen.frame)

\* a stray byte that is no address was followed by a frame, pushed to its end
C2_Witness ==
    /\ StrayDone
    /\ PrefixEnded
    /\ scen.stray \notin PacketAddress
    /\ out[Len(out)].kind = "Complete"

\* a stray address byte swallowed the first byte of the frame
C2_Lost ==
    /\ StrayDone
    /\ PrefixEnded
    /\ scen.stray \in PacketAddress
    /\ out[Len(out)] # Complete(scen.frame)

(***************************************************************************)
(* iter_packets and PacketIterator::next (parser.rs)                        *)
(***************************************************************************)
Some(x) == [tag |-> "Some", val |-> x]
None == [tag |-> "None"]

\* a slip: iter_packets starts from a reset parser
iter_packets_Reset(p, buf) == [parser |-> reset(p), buffer |-> buf, pos |-> 0]

\* CrsfParser::iter_packets
iter_packets(p, buf) == [parser |-> p, buffer |-> buf, pos |-> 0]

\* one turn of the loop in next(): the byte at pos goes through push_byte
IterStep(it) ==
    LET r == push_byte(it.parser, At(it.buffer, it.pos)) IN
    [it |-> [it EXCEPT !.pos = it.pos + 1, !.parser = r.parser], result |-> r.result]

RECURSIVE PacketIterator_next(_)

\* a slip: a decoded packet is not returned, the loop goes on
IterMatch_Drop(s) ==
    CASE s.result.kind = "Complete" -> PacketIterator_next(s.it)
      [] s.result.kind = "Error" -> [it |-> s.it, item |-> Some(Err(s.result.err))]
      [] s.result.kind = "Abort" -> [it |-> s.it, item |-> Panic]
      [] OTHER -> PacketIterator_next(s.it)

\* the match on the result of push_byte in next()
IterMatch(s) ==
    CASE s.result.kind = "Complete" -> [it |-> s.it, item |-> Some(Ok(s.result.val))]
      [] s.result.kind = "Error" -> [it |-> s.it, item |-> Some(Err(s.result.err))]
      [] s.result.kind = "Abort" -> [it |-> s.it, item |-> Panic]
      [] OTHER -> PacketIterator_next(s.it)

\* PacketIterator::next: the whole loop of one call
PacketIterator_next(it) ==
    IF it.pos < Len(it.buffer) THEN IterMatch(IterStep(it))
    ELSE [it |-> it, item |-> None]

\* a frame of a type Packet::parse does not know
F_Unknown == MkFrame(200, 4, << 1 >>)
\* a Vario frame with one payload byte instead of two
F_ShortVario == MkFrame(200, VariometerSensor_PACKET_TYPE, << 1 >>)
\* a Temp frame with 21 temperatures
F_TempLong == MkFrame(200, Temp_PACKET_TYPE, Repeat(0, 1 + 2 * (Temp_CAPACITY + 1)))
\* the start of a frame, cut short
F_Trunc == << 200, 12, 20, 16 >>

StreamPieces ==
    { F_LinkStats, F_Embedded, F_Unknown, F_ShortVario, F_TempLong,
      WithLast(F_LinkStats, 0), F_Trunc }

\* bytes between the pieces: none, or two that are no address
GapRuns == { << >>, << 1, 255 >> }

MaxFrames == 2

RECURSIVE Interleave(_, _)
\* gaps[1] pieces[1] gaps[2] ... pieces[k] gaps[k + 1]
Interleave(pieces, gaps) ==
    IF Len(pieces) = 0 THEN Head(gaps)
    ELSE Head(gaps) \o Head(pieces) \o Interleave(Tail(pieces), Tail(gaps))

StreamScenarios ==
    UNION { { [name |-> "stream", pieces |-> ps, gaps |-> gs, sizes |-> { 0 }] :
                gs \in [1..(k + 1) -> GapRuns], ps \in [1..k -> StreamPieces] } :
            k \in 0..MaxFrames }

InitStream ==
    /\ FreshParser
    /\ scen \in StreamScenarios
    /\ input = Interleave(scen.pieces, scen.gaps)
    /\ pos = 0 /\ limit = 0 /\ out = << >> /\ iter = NoIter

\* parser.iter_packets(chunk) on the next k bytes of the input; size 0 in the
\* scenario stands for all that is left
IterPackets(k) ==
    /\ ~aborted
    /\ ~iter.live
    /\ limit < Len(input) \/ (Len(input) = 0 /\ result.op = "none")
    /\ LET it == iter_packets(Parser, Slice(input, limit, limit + k)) IN
        /\ SetParser(it.parser)
        /\ iter' = [live |-> TRUE, whole |-> (limit = 0 /\ k = Len(input)),
                    buffer |-> it.buffer, pos |-> it.pos]
    /\ limit' = limit + k
    /\ result' = [op |-> "iter_packets", ret |-> [kind |-> "None"]]
    /\ UNCHANGED <<input, pos, out, scen, aborted>>

\* one call of next() on the iterator
IterNext ==
    /\ ~aborted
    /\ iter.live
    /\ LET r == PacketIterator_next([parser |-> Parser, buffer |-> iter.buffer,
                                     pos |-> iter.pos]) IN
        /\ SetParser(r.it.parser)
        /\ iter' = [iter EXCEPT !.pos = r.it.pos, !.live = (r.item.tag # "None")]
        /\ pos' = pos + (r.it.pos - iter.pos)
        /\ out' = IF r.item.tag = "Some" THEN Append(out, r.item.val) ELSE out
        /\ aborted' = (r.item.tag = "Panic")
        /\ result' = [op |-> "next", ret |-> r.item]
    /\ UNCHANGED <<input, limit, scen>>

IterPacketsAny ==
    \E k \in 0..Len(input) :
        /\ k = Len(input) - limit \/ (k \in scen.sizes /\ k > 0 /\ limit + k <= Len(input))
        /\ (k = Len(input) - limit) => 0 \in scen.sizes
        /\ IterPackets(k)

NextIter == IterPacketsAny \/ IterNext

SpecIter == InitStream /\ [][NextIter]_vars

SpecPush == InitStream /\ [][FeedByte]_vars

\* the iterator has returned None and no input is left
Finished ==
    /\ ~iter.live
    /\ result.op = "next"
    /\ result.ret = None
    /\ limit = Len(input)

AllWellFormed == \A i \in 1..Len(scen.pieces) : WellFormed(scen.pieces[i])
NoGaps == \A i \in 1..Len(scen.gaps) : scen.gaps[i] = << >>
AllDecoded == \A i \in 1..Len(scen.pieces) : Packet_parse(scen.pieces[i]).tag = "Ok"
GapsNoAddress ==
    \A i \in 1..Len(scen.gaps) : \A j \in 1..Len(scen.gaps[i]) :
        scen.gaps[i][j] \notin PacketAddress

\* C5: every call of push_byte returns Incomplete, Complete or Error, whatever
\* bytes were pushed before; no call aborts.
C5_NoAbort ==
    scen.name = "stream" =>
        \A i \in 1..Len(out) : out[i].kind \in { "Incomplete", "Complete", "Error" }

\* C6 as stated: over the concatenation of k well-formed frames iter_packets
\* yields k items, all Ok, in the order of the frames, and then None.
C6_AllOk ==
    (scen.name = "stream" /\ iter.whole /\ AllWellFormed /\ NoGaps) =>
        /\ ~aborted
        /\ \A i \in 1..Len(out) :
              i <= Len(scen.pieces) /\ out[i].tag = "Ok" /\ out[i] = Packet_parse(scen.pieces[i])
        /\ Finished => Len(out) = Len(scen.pieces)

\* C6, amended: the same over well-formed frames each of which Packet::parse
\* decodes to a packet.
C6_DecodedOk ==
    (scen.name = "stream" /\ iter.whole /\ AllWellFormed /\ NoGaps /\ AllDecoded) =>
        /\ ~aborted
        /\ \A i \in 1..Len(out) :
              i <= Len(scen.pieces) /\ out[i].tag = "Ok" /\ out[i] = Packet_parse(scen.pieces[i])
        /\ Finished => Len(out) = Len(scen.pieces)

\* two decodable frames back to back were iterated to the end
C6_Witness ==
    /\ scen.name = "stream" /\ iter.whole
    /\ AllWellFormed /\ NoGaps /\ AllDecoded
    /\ Len(scen.pieces) = 2
    /\ Finished
    /\ Len(out) = 2

\* a well-formed frame of an unknown type gave an Err item
C6_ErrItem ==
    /\ scen.name = "stream" /\ iter.whole
    /\ AllWellFormed /\ NoGaps
    /\ Finished
    /\ \E i \in 1..Len(out) : out[i].tag = "Err"

RECURSIVE PushAll(_, _, _)
\* pushing s byte by byte with push_byte from parser p: the results other
\* than Incomplete, as the items an iterator would yield
PushAll(p, s, items) ==
    IF Len(s) = 0 THEN [parser |-> p, items |-> items]
    ELSE LET r == push_byte(p, Head(s)) IN
         CASE r.result.kind = "Complete" ->
                PushAll(r.parser, Tail(s), Append(items, Ok(r.result.val)))
           [] r.result.kind = "Error" ->
                PushAll(r.parser, Tail(s), Append(items, Err(r.result.err)))
           [] r.result.kind = "Abort" -> [parser |-> r.parser, items |-> Append(items, Panic)]
           [] OTHER -> PushAll(r.parser, Tail(s), items)

OkItems(items) == SelectSeq(items, LAMBDA x : x.tag = "Ok")
SyncErrors(items) == SelectSeq(items, LAMBDA x : x = Err(InvalidSync))
GapBytes == Concat(scen.gaps)

\* C7: runs of bytes that are no address, put before, between and after
\* well-formed frames, leave the Ok items of iter_packets as they are without
\* the runs, and each such byte yields one Err(InvalidSync) item.
C7_Garbage ==
    (scen.name = "stream" /\ iter.whole /\ AllWellFormed /\ GapsNoAddress) =>
        /\ ~aborted
        /\ Finished =>
            /\ OkItems(out) = OkItems(PushAll(CrsfParser_new, Concat(scen.pieces), << >>).items)
            /\ Len(SyncErrors(out)) = Len(GapBytes)

(***************************************************************************)
(* A stream handed to iter_packets in chunks                                 *)
(***************************************************************************)
\* the five garbage bytes of test_stream_with_interspersed_garbage
Garbage == << 1, 2, 3, 4, 5 >>

\* streams after parser.rs's tests and integration_test.rs, and streams with
\* a cut, a corrupted, an undecodable and an aborting frame
StreamSamples ==
    { << >>,
      F_LinkStats \o F_RcChannels,
      Garbage \o F_LinkStats \o Garbage \o F_Embedded \o Garbage,
      << 12, 20, 16 >> \o F_LinkStats,
      F_Trunc \o F_LinkStats,
      WithLast(F_LinkStats, 0) \o F_Min,
      F_Unknown \o F_Embedded \o F_ShortVario,
      F_TempLong \o F_Min,
      << 200 >> \o F_Embedded \o F_Embedded }

\* the chunk sizes a caller uses; 0 stands for all that is left
ChunkSizes == { 0, 1, 3 }

InitChunks ==
    /\ FreshParser
    /\ scen \in { [name |-> "chunks", stream |-> st, sizes |-> ChunkSizes] :
                    st \in StreamSamples }
    /\ input = scen.stream
    /\ pos = 0 /\ limit = 0 /\ out = << >> /\ iter = NoIter

SpecChunks == InitChunks /\ [][NextIter]_vars

\* the items so far, with the abort if there was one
OutSoFar == IF aborted THEN Append(out, Panic) ELSE out

\* C10: however the stream is split into chunks, the items yielded by
\* iter_packets on the chunks in order are the results other than Incomplete
\* of pushing the same bytes one by one with push_byte, and the parser is
\* left as those pushes leave it.
C10_ChunkIndependence ==
    scen.name = "chunks" =>
        LET ref == PushAll(CrsfParser_new, Slice(input, 0, pos), << >>) IN
        /\ OutSoFar = ref.items
        /\ ~aborted => Parser = ref.parser

\* a stream of two frames was handed over in more than one chunk, a frame
\* was split between two chunks, and both frames came out
C10_Witness ==
    /\ scen.name = "chunks"
    /\ Finished
    /\ ~iter.whole
    /\ Len(iter.buffer) = 1
    /\ Len(OkItems(out)) = 2

(***************************************************************************)
(* An endless run of frames behind a prefix, through push_byte_raw           *)
(***************************************************************************)
\* frames none of whose bytes after the first is a member of PacketAddress
F_Clean == MkFrame(200, AirSpeed_PACKET_TYPE, << 1, 2 >>)
F_CleanBaro == MkFrame(200, BaroAltitude_PACKET_TYPE, << 1, 2, 3 >>)

ResyncFrames ==
    { { F_Clean }, { F_Clean, F_CleanBaro }, { F_Embedded },
      { F_Embedded, F_Clean }, { F_LinkStats } }

\* what was pushed before the frames: nothing, the tail of a frame, the start
\* of a frame, an address, a frame head announcing 22 bytes
ResyncPrefixes ==
    { << >>, << 3, 8, 88, 148, 252 >>, << 200, 4, 1 >>, << 200 >>, << 200, 20 >> }

InitResync ==
    /\ FreshParser
    /\ scen \in { [name |-> "resync", prefix |-> p, frames |-> fs] :
                    p \in ResyncPrefixes, fs \in ResyncFrames }
    /\ input = scen.prefix
    /\ pos = 0 /\ limit = 0 /\ out = << >> /\ iter = NoIter

\* the input goes on with one more frame
NextFrame ==
    /\ ~aborted
    /\ pos = Len(input)
    /\ input' \in scen.frames
    /\ pos' = 0
    /\ out' = << >>
    /\ limit' = 1
    /\ UNCHANGED <<buffer, state, position, result, scen, aborted, iter>>

NextResync == FeedRaw \/ NextFrame

\* the input never ends: a frame follows a frame, and a byte that is left is
\* pushed (FeedRaw is enabled whenever a byte is left, so []<><<FeedRaw>>_vars
\* is its weak fairness)
SpecResync ==
    InitResync /\ [][NextResync]_vars /\ WF_vars(NextFrame) /\ []<><<FeedRaw>>_vars

\* the last byte of a frame of the run was answered with Complete of that frame
Synced ==
    /\ scen.name = "resync"
    /\ limit = 1
    /\ pos = Len(input)
    /\ result = [op |-> "push_byte_raw", ret |-> Complete(input)]

CleanFrames ==
    \A f \in scen.frames : \A i \in 2..Len(f) : f[i] \notin PacketAddress

\* C8 as stated: whatever the prefix, an endless run of well-formed frames
\* leads to Complete for one of them at its true boundary.
C8_EventuallySynced == <>Synced

\* C8, amended: the same when no byte of the frames other than their first is
\* a member of PacketAddress.
C8_CleanEventuallySynced == (scen.name = "resync" /\ CleanFrames) ~> Synced

\* behind a prefix that left the parser inside a frame, a frame of a run
\* without address-valued bytes was returned
C8_Witness ==
    /\ Synced
    /\ CleanFrames
    /\ scen.prefix = << 200, 20 >>

\* C3: whenever push_byte_raw returns Complete(frame), the frame starts with
\* a PacketAddress, its length is in [4, 64) and is the length byte plus 2,
\* its payload has (length byte - 2) bytes, and its last byte is the
\* CRC-8/DVB-S2 digest of its type and payload.
C3_NoFalsePositive ==
    (result.op = "push_byte_raw" /\ result.ret.kind = "Complete") =>
        LET f == result.ret.val IN
        /\ At(f, 0) \in PacketAddress
        /\ Len(f) >= 4 /\ Len(f) < 64
        /\ Len(f) = At(f, 1) + 2
        /\ Len(payload(f)) = At(f, 1) - 2
        /\ f[Len(f)] = Crc8(SubSeq(f, 3, Len(f) - 1))

\* a six-byte frame (two payload bytes) was returned as Complete
C3_Witness ==
    /\ result.op = "push_byte_raw"
    /\ result.ret.kind = "Complete"
    /\ Len(result.ret.val) = 6

\* C4: every call of push_byte_raw or push_byte that returns Error leaves the
\* parser in AwaitingSync.
C4_ErrorResets ==
    (result.op \in {"push_byte_raw", "push_byte"} /\ result.ret.kind = "Error")
        => state = AwaitingSync

\* push_byte returned a ParsingError from dispatch
C4_Witness ==
    /\ result.op = "push_byte"
    /\ result.ret.kind = "Error"
    /\ result.ret.err.name = "ParsingError"

\* push_byte_raw returned InvalidCrc
C4_WitnessCrc ==
    /\ result.op = "push_byte_raw"
    /\ result.ret.kind = "Error"
    /\ result.ret.err.name = "InvalidCrc"


(***************************************************************************)
(* The packet sequence ends with the buffer                                 *)
(***************************************************************************)
\* the bytes the iterator has taken from the buffer so far
Consumed == Slice(input, 0, pos)

\* the stream ends with the start of a frame, cut short
TrailingIncomplete ==
    /\ Len(scen.pieces) > 0
    /\ scen.pieces[Len(scen.pieces)] = F_Trunc
    /\ scen.gaps[Len(scen.gaps)] = << >>

\* the stream without its last piece
WithoutLast ==
    Interleave(SubSeq(scen.pieces, 1, Len(scen.pieces) - 1),
               SubSeq(scen.gaps, 1, Len(scen.gaps) - 1))

\* C11: over a buffer of n bytes iter_packets yields at most n items and then
\* None; no call of next() aborts; the items yielded so far never number more
\* than the bytes consumed, they and the parser are those of pushing each
\* consumed byte once, in order; None comes when all n bytes are consumed, and
\* an incomplete trailing frame has yielded no item.
C11_Terminates ==
    (scen.name = "stream" /\ iter.whole) =>
        /\ ~aborted
        /\ pos <= Len(input)
        /\ Len(out) <= pos
        /\ LET ref == PushAll(CrsfParser_new, Consumed, << >>) IN
              out = ref.items /\ Parser = ref.parser
        /\ (result.op = "next" /\ result.ret = None) => pos = Len(input)
        /\ (Finished /\ TrailingIncomplete) =>
              out = PushAll(CrsfParser_new, WithoutLast, << >>).items


(***************************************************************************)
(* Dispatch: Packet::parse over frames of every type byte, alone and        *)
(* behind push_byte with a second frame after it                            *)
(***************************************************************************)
\* the packet types Packet::parse has an arm for
Dispatched ==
    { LinkStatistics_PACKET_TYPE, LinkStatisticsTx_PACKET_TYPE, LinkStatisticsRx_PACKET_TYPE,
      RcChannelsPacked_PACKET_TYPE, Gps_PACKET_TYPE, GpsTime_PACKET_TYPE,
      GpsExtended_PACKET_TYPE, AirSpeed_PACKET_TYPE, BaroAltitude_PACKET_TYPE,
      Battery_PACKET_TYPE, FlightMode_PACKET_TYPE, Rpm_PACKET_TYPE, Temp_PACKET_TYPE,
      Voltages_PACKET_TYPE, VtxTelemetry_PACKET_TYPE, VariometerSensor_PACKET_TYPE,
      EspNow_PACKET_TYPE, Heartbeat_PACKET_TYPE, MavLinkFc_PACKET_TYPE,
      MavlinkEnvelope_PACKET_TYPE }

\* the variants of Packet that wrap a record
Variants ==
    { "LinkStatistics", "LinkStatisticsRx", "LinkStatisticsTx", "RCChannels", "Gps",
      "GpsTime", "GpsExtended", "Vario", "Battery", "AirSpeed", "BaroAltitude", "Rpm",
      "Temp", "Voltages", "VtxTelemetry", "FlightMode", "Heartbeat", "EspNow",
      "MavlinkEnvelope", "MavLinkFc", "Remote" }

\* T::MIN_PAYLOAD_SIZE of the record inside a Packet
MIN_PAYLOAD_SIZE(variant) ==
    CASE variant = "LinkStatistics" -> LinkStatistics_MIN_PAYLOAD_SIZE
      [] variant = "LinkStatisticsTx" -> LinkStatisticsTx_SERIALIZED_LEN
      [] variant = "LinkStatisticsRx" -> LinkStatisticsRx_MIN_PAYLOAD_SIZE
      [] variant = "RCChannels" -> RcChannelsPacked_MIN_PAYLOAD_SIZE
      [] variant = "Gps" -> Gps_MIN_PAYLOAD_SIZE
      [] variant = "GpsTime" -> GpsTime_MIN_PAYLOAD_SIZE
      [] variant = "GpsExtended" -> GpsExtended_MIN_PAYLOAD_SIZE
      [] variant = "AirSpeed" -> AirSpeed_MIN_PAYLOAD_SIZE
      [] variant = "BaroAltitude" -> BaroAltitude_MIN_PAYLOAD_SIZE
      [] variant = "Battery" -> Battery_MIN_PAYLOAD_SIZE
      [] variant = "FlightMode" -> FlightMode_MIN_PAYLOAD_SIZE
      [] variant = "Rpm" -> Rpm_MIN_PAYLOAD_SIZE
      [] variant = "Temp" -> Temp_MIN_PAYLOAD_SIZE
      [] variant = "Voltages" -> Voltages_MIN_PAYLOAD_SIZE
      [] variant = "VtxTelemetry" -> VtxTelemetry_MIN_PAYLOAD_SIZE
      [] variant = "Vario" -> VariometerSensor_MIN_PAYLOAD_SIZE
      [] variant = "EspNow" -> EspNow_MIN_PAYLOAD_SIZE
      [] variant = "Heartbeat" -> Heartbeat_MIN_PAYLOAD_SIZE
      [] variant = "MavLinkFc" -> MavLinkFc_MIN_PAYLOAD_SIZE
      [] variant = "MavlinkEnvelope" -> MavlinkEnvelope_MIN_PAYLOAD_SIZE
      [] variant = "Remote" -> Remote_MIN_PAYLOAD_SIZE

\* T::from_bytes(data), by the record's type
from_bytes(variant, data) ==
    CASE variant = "LinkStatistics" -> LinkStatistics_from_bytes(data)
      [] variant = "LinkStatisticsTx" -> LinkStatisticsTx_from_bytes(data)
      [] variant = "LinkStatisticsRx" -> LinkStatisticsRx_from_bytes(data)
      [] variant = "RCChannels" -> RcChannelsPacked_from_bytes(data)
      [] variant = "Gps" -> Gps_from_bytes(data)
      [] variant = "GpsTime" -> GpsTime_from_bytes(data)
      [] variant = "GpsExtended" -> GpsExtended_from_bytes(data)
      [] variant = "AirSpeed" -> AirSpeed_from_bytes(data)
      [] variant = "BaroAltitude" -> BaroAltitude_from_bytes(data)
      [] variant = "Battery" -> Battery_from_bytes(data)
      [] variant = "FlightMode" -> FlightMode_from_bytes(data)
      [] variant = "Rpm" -> Rpm_from_bytes(data)
      [] variant = "Temp" -> Temp_from_bytes(data)
      [] variant = "Voltages" -> Voltages_from_bytes(data)
      [] variant = "VtxTelemetry" -> VtxTelemetry_from_bytes(data)
      [] variant = "Vario" -> VariometerSensor_from_bytes(data)
      [] variant = "EspNow" -> EspNow_from_bytes(data)
      [] variant = "Heartbeat" -> Heartbeat_from_bytes(data)
      [] variant = "MavLinkFc" -> MavLinkFc_from_bytes(data)
      [] variant = "MavlinkEnvelope" -> MavlinkEnvelope_from_bytes(data)
      [] variant = "Remote" -> Remote_from_bytes(data)

\* the variant whose codec carries packet type t
VariantOf(t) == CHOOSE v \in Variants : PACKET_TYPE(v) = t

\* the payload of test_timing_correction_from_bytes, and one of a sub-type
\* Remote does not know
RemoteSample == << 234, 238, TIMING_CORRECTION_SUB_TYPE, 0, 0, 195, 80, 255, 255, 255, 249 >>
RemoteUnknownSub == << 234, 238, 17, 0, 0, 0, 0, 0, 0, 0, 0 >>

\* payloads tried behind type byte t: three short ones for every t; for the
\* type of a codec, a ramp of every length up to one past its minimum, the
\* three patterns at a length it decodes, and an all-zero payload one longer
DispatchPayloads(t) ==
    { << >>, << 1 >>, << 1, 2, 3 >> }
    \cup (IF \E v \in Variants : PACKET_TYPE(v) = t
          THEN { PatternPayload(n, 2) : n \in 0..(MIN_PAYLOAD_SIZE(VariantOf(t)) + 1) }
               \cup { PatternPayload(MIN_PAYLOAD_SIZE(VariantOf(t)) + 1, 0) }
          ELSE { })
    \cup { PatternPayload(c[2], x) : c \in { d \in CodecShapes : d[1] = t }, x \in 0..2 }
    \cup (IF t = Remote_PACKET_TYPE THEN { RemoteSample, RemoteUnknownSub } ELSE { })

\* the frame of the scenario
DispatchFrame == MkFrame(CRSF_SYNC_BYTE, scen.tag, scen.data)

InitDispatch ==
    /\ FreshParser
    /\ scen \in UNION { { [name |-> "dispatch", tag |-> t, data |-> d, next |-> f] :
                              d \in DispatchPayloads(t), f \in { F_Clean, F_LinkStats } } :
                        t \in Byte }
    /\ LET frame == MkFrame(CRSF_SYNC_BYTE, scen.tag, scen.data) IN
            input = frame \o scen.next
    /\ pos = 0 /\ limit = 0 /\ out = << >> /\ iter = NoIter

\* Packet::parse(&raw_packet) on the frame, as a raw packet
ParseFrame ==
    /\ ~aborted
    /\ scen.name = "dispatch"
    /\ result.op = "none"
    /\ LET d == Packet_parse(DispatchFrame) IN
        /\ result' = [op |-> "parse", ret |-> d]
        /\ aborted' = (d.tag = "Panic")
    /\ UNCHANGED <<buffer, state, position, input, pos, limit, out, scen, iter>>

NextDispatch == ParseFrame \/ FeedByte

SpecDispatch == InitDispatch /\ [][NextDispatch]_vars

\* Packet::parse has returned for the frame of the scenario
Parsed == scen.name = "dispatch" /\ result.op = "parse"

\* C12: for a CRC-validated frame whose type byte, any of 0..255, is that of
\* no codec, Packet::parse returns NotImlemented(type, payload length) and not
\* an error.
C12_Fallback ==
    (Parsed /\ ~(\E v \in Variants : PACKET_TYPE(v) = scen.tag)) =>
        result.ret = Ok(NotImlemented(scen.tag, Len(scen.data)))

\* C13: for every variant of Packet that wraps a record, Remote among them, a
\* CRC-validated frame with that variant's PACKET_TYPE and a payload its codec
\* decodes is returned by Packet::parse as that variant around the decoded
\* record.
C13_DispatchOnMatch ==
    Parsed =>
        \A v \in Variants :
            (PACKET_TYPE(v) = scen.tag /\ from_bytes(v, scen.data).tag = "Ok") =>
                result.ret = Ok([variant |-> v, rec |-> from_bytes(v, scen.data).val])


\* the codec Packet::parse hands the frame's payload to has rejected it
Rejected ==
    /\ scen.name = "dispatch"
    /\ scen.tag \in Dispatched
    /\ from_bytes(VariantOf(scen.tag), scen.data).tag = "Err"

\* C14: when the codec rejects the payload of a CRC-valid frame with error e,
\* push_byte returns Incomplete up to the frame's last byte and
\* Error(ParsingError(e)) on it, the parser is in AwaitingSync afterwards, and a
\* well-formed frame pushed right after is returned as Complete on its last
\* byte.
C14_PayloadErrorConfined ==
    Rejected =>
        LET n == Len(DispatchFrame)
            e == from_bytes(VariantOf(scen.tag), scen.data).err
        IN  /\ \A i \in 1..Len(out) :
                  out[i] = CASE i = n -> Error(ParsingError(e))
                             [] i = Len(input) -> Complete(Packet_parse(scen.next).val)
                             [] OTHER -> Incomplete
            /\ pos = n => state = AwaitingSync

\* a frame rejected with InvalidPayload, and the frame after it returned
C14_Witness ==
    /\ Rejected
    /\ pos = Len(input)
    /\ out[Len(DispatchFrame)] = Error(ParsingError(InvalidPayload))
    /\ out[Len(input)].kind = "Complete"

\* the same for a payload shorter than the codec's minimum
C14_WitnessShort ==
    /\ Rejected
    /\ pos = Len(input)
    /\ Len(scen.data) < MIN_PAYLOAD_SIZE(VariantOf(scen.tag))
    /\ out[Len(DispatchFrame)] = Error(ParsingError(InvalidPayloadLength))
    /\ out[Len(input)].kind = "Complete"


(***************************************************************************)
(* Encoding into buffers of every length: write_packet_to_buffer and        *)
(* to_bytes (packets/mod.rs and the codecs)                                 *)
(***************************************************************************)
\* what every byte of the caller's buffer holds before the call: zero as in
\* the tests, or a marker
FillBytes == { 0, 85 }

\* the record of test_remote_round_trip
RemotePacket ==
    [variant |-> "Remote",
     rec |-> [dst_addr |-> 200, src_addr |-> 236,
              payload |-> TimingCorrection(U32(0, 12345), -6789)]]

EncodePackets == SamplePackets \cup { RemotePacket }

\* the number of payload bytes the record needs
Needed(packet) == Len(to_bytes(packet, MAX_PAYLOAD_SIZE).val)

\* buffer lengths: every one up to the whole frame, and the 64 of the tests
EncodeCaps(packet) == 0..(Needed(packet) + 4) \cup { DestBufLen }

InitEncode ==
    /\ FreshParser
    /\ scen \in UNION { { [name |-> "encode", packet |-> pk, dest |-> d, cap |-> c,
                               fill |-> b] :
                              d \in SampleDest, c \in EncodeCaps(pk), b \in FillBytes } :
                        pk \in EncodePackets }
    /\ input = Repeat(scen.fill, scen.cap)
    /\ pos = 0 /\ limit = 0 /\ out = << >> /\ iter = NoIter

\* write_packet_to_buffer(&mut buffer, dest, &packet): input is the caller's
\* buffer, limit the n of Ok(n)
WriteBuffer ==
    /\ scen.name = "encode"
    /\ result.op = "none"
    /\ LET w == write_packet_to_buffer(input, scen.dest, scen.packet) IN
        /\ input' = w.buffer
        /\ limit' = IF w.ret.tag = "Ok" THEN w.ret.val ELSE 0
        /\ result' = [op |-> "write_packet_to_buffer", ret |-> w.ret]
        /\ aborted' = (w.ret.tag = "Panic")
    /\ UNCHANGED <<buffer, state, position, pos, out, scen, iter>>

\* packet.to_bytes(&mut buffer) on the caller's buffer
ToBytes ==
    /\ scen.name = "encode"
    /\ result.op = "none"
    /\ LET e == to_bytes(scen.packet, scen.cap) IN
        /\ input' = IF e.tag = "Ok"
                    THEN e.val \o SubSeq(input, Len(e.val) + 1, Len(input))
                    ELSE input
        /\ limit' = IF e.tag = "Ok" THEN Len(e.val) ELSE 0
        /\ result' = [op |-> "to_bytes", ret |-> e]
        /\ aborted' = (e.tag = "Panic")
    /\ UNCHANGED <<buffer, state, position, pos, out, scen, iter>>

NextEncode == WriteBuffer \/ ToBytes

SpecEncode == InitEncode /\ [][NextEncode]_vars

Written == scen.name = "encode" /\ result.op = "write_packet_to_buffer"
Encoded == scen.name = "encode" /\ result.op = "to_bytes"

\* C15: when write_packet_to_buffer returns Ok(n) for a record of payload size
\* p, n = p + 4, buffer[0] is the destination, buffer[1] = p + 2, buffer[2] the
\* packet type, buffer[3..3+p] the codec's payload and buffer[3+p] the
\* CRC-8/DVB-S2 digest of buffer[2..3+p].
C15_Layout ==
    (Written /\ result.ret.tag = "Ok") =>
        LET n == result.ret.val
            p == Needed(scen.packet)
        IN  /\ n = p + 4
            /\ At(input, 0) = scen.dest
            /\ At(input, 1) = p + 2
            /\ At(input, 2) = PACKET_TYPE(scen.packet.variant)
            /\ Slice(input, 3, 3 + p) = to_bytes(scen.packet, MAX_PAYLOAD_SIZE).val
            /\ At(input, 3 + p) = Crc8(Slice(input, 2, 3 + p))

\* a frame was written into a buffer longer than the frame
C15_Witness ==
    /\ Written /\ result.ret.tag = "Ok"
    /\ scen.cap = DestBufLen
    /\ limit > 4 /\ limit < scen.cap

\* C16: into a buffer shorter than p + 4 write_packet_to_buffer returns
\* Err(BufferOverflow) and leaves every byte of the buffer as it was.
C16_FailsClosed ==
    (Written /\ scen.cap < Needed(scen.packet) + 4) =>
        /\ result.ret = Err(BufferOverflow)
        /\ input = Repeat(scen.fill, scen.cap)

\* a buffer one byte short of the frame was refused
C16_Witness ==
    /\ Written
    /\ scen.cap = Needed(scen.packet) + 3
    /\ result.ret = Err(BufferOverflow)

\* C17: when write_packet_to_buffer returns Ok(n), 4 <= n <= 63 and the
\* length byte written passes the parser's check: length byte + 2 is at least
\* CRSF_MIN_PACKET_SIZE and less than CRSF_MAX_PACKET_SIZE.
C17_WithinWireLimit ==
    (Written /\ result.ret.tag = "Ok") =>
        /\ 4 <= result.ret.val /\ result.ret.val <= 63
        /\ At(input, 1) + 2 >= CRSF_MIN_PACKET_SIZE
        /\ At(input, 1) + 2 < CRSF_MAX_PACKET_SIZE

\* C18: to_bytes of any codec, Heartbeat and Rpm among them, on a buffer
\* shorter than the bytes the record needs returns Err(BufferOverflow), writes
\* nothing outside the buffer and does not abort.
C18_EncodeRejectsShort ==
    (Encoded /\ scen.cap < Needed(scen.packet)) =>
        /\ result.ret = Err(BufferOverflow)
        /\ Len(input) = scen.cap


(***************************************************************************)
(* Channel packing: RcChannelsPacked::to_bytes, then from_bytes             *)
(* (rc_channels_packed.rs, test_rc_channels_packed_round_trip)              *)
(***************************************************************************)
\* the channels of test_rc_channels_packed_round_trip
TestChannels ==
    << 1000, 1001, 1002, 1003, 1500, 1501, 1502, 1503, 2000, 2001, 2002, 2003,
       992, 100, 500, 1900 >>

\* values of one channel: each single bit, all bits, every other bit
ChannelValues == { Pow2(k) : k \in 0..10 } \cup { MASK_11BIT, 1365, 682 }

\* arrays of 16 channel values in 0..2047: one channel at each of the values
\* with the others all 0 or all 2047, the array of the test, two ramps
ChannelArrays ==
    { [i \in 0..15 |-> IF i = c THEN v ELSE bg] :
          c \in 0..15, v \in ChannelValues \cup { 0 }, bg \in { 0, MASK_11BIT } }
    \cup { [i \in 0..15 |-> TestChannels[i + 1]] }
    \cup { [i \in 0..15 |-> (101 + 733 * i * m) % (MASK_11BIT + 1)] : m \in 1..2 }

\* lengths of the output buffer: the 22 bytes of the test, the 60 of
\* write_packet_to_buffer
ChannelCaps == { RcChannelsPacked_MIN_PAYLOAD_SIZE, MAX_PAYLOAD_SIZE }

InitChannels ==
    /\ FreshParser
    /\ scen \in { [name |-> "channels", v |-> v, cap |-> c] :
                    v \in ChannelArrays, c \in ChannelCaps }
    /\ input = Repeat(0, scen.cap)
    /\ pos = 0 /\ limit = 0 /\ out = << >> /\ iter = NoIter

\* RcChannelsPacked(v).to_bytes(&mut buffer): limit is the count returned
PackChannels ==
    /\ scen.name = "channels"
    /\ result.op = "none"
    /\ LET e == RcChannelsPacked_to_bytes([ch |-> scen.v], scen.cap) IN
        /\ input' = IF e.tag = "Ok"
                    THEN e.val \o SubSeq(input, Len(e.val) + 1, Len(input))
                    ELSE input
        /\ limit' = IF e.tag = "Ok" THEN Len(e.val) ELSE 0
        /\ result' = [op |-> "to_bytes", ret |-> e]
    /\ UNCHANGED <<buffer, state, position, pos, out, scen, aborted, iter>>

\* RcChannelsPacked::from_bytes(&buffer[..limit])
UnpackChannels ==
    /\ scen.name = "channels"
    /\ result.op = "to_bytes"
    /\ result' = [op |-> "from_bytes", ret |-> RcChannelsPacked_from_bytes(Slice(input, 0, limit))]
    /\ UNCHANGED <<buffer, state, position, input, pos, limit, out, scen, aborted, iter>>

NextChannels == PackChannels \/ UnpackChannels

SpecChannels == InitChannels /\ [][NextChannels]_vars

\* C20: for 16 channel values each in 0..2047, to_bytes writes exactly 22
\* bytes and from_bytes of those 22 bytes returns the same 16 values.
C20_ChannelRoundTrip ==
    scen.name = "channels" =>
        /\ result.op = "to_bytes" => (result.ret.tag = "Ok" /\ limit = 22)
        /\ result.op = "from_bytes" =>
              (limit = 22 /\ result.ret = Ok([ch |-> scen.v]))

\* the array of the test came back from its 22 bytes
C20_Witness ==
    /\ scen.name = "channels"
    /\ scen.v = [i \in 0..15 |-> TestChannels[i + 1]]
    /\ result.op = "from_bytes"
    /\ result.ret = Ok([ch |-> scen.v])


\* the payload of the frame is shorter than the minimum of the codec
\* Packet::parse hands it to
ShortPayload ==
    /\ Parsed
    /\ scen.tag \in Dispatched
    /\ Len(scen.data) < MIN_PAYLOAD_SIZE(VariantOf(scen.tag))

\* C19: for every codec Packet::parse dispatches to and every payload shorter
\* than the codec's MIN_PAYLOAD_SIZE, the empty payload of a 4-byte frame
\* included, from_bytes returns an error and never a record.
C19_DecodeRejectsShort ==
    ShortPayload =>
        /\ result.ret.tag = "Err"
        /\ from_bytes(VariantOf(scen.tag), scen.data).tag = "Err"


(***************************************************************************)
(* Altitude packing (baro_altitude.rs, test_altitude_packing)               *)
(***************************************************************************)
I32_MIN == -2147483647 - 1
I32_MAX == -(I32_MIN + 1)

\* how far around each corner of the packing the inputs are taken one by one
AltitudeSpan == 12

\* i32 decimeter inputs: every value near each corner of the packing and near
\* both ends of i32, the values of the test, and a stride through the ranges
AltitudeInputs ==
    UNION { { c + d : d \in (-AltitudeSpan)..AltitudeSpan } :
                c \in { -ALT_MIN_DM, 0, ALT_THRESHOLD_DM, ALT_MAX_DM } }
    \cup { I32_MIN + d : d \in 0..AltitudeSpan }
    \cup { I32_MAX - d : d \in 0..AltitudeSpan }
    \cup { 22766, 22767, 327660, -10001 }
    \cup { 997 * k : k \in (-40)..400 }
    \cup { 1000003 * k : k \in (-2000)..2000 }

InitAltitude ==
    /\ FreshParser
    /\ scen \in { [name |-> "altitude", a |-> a] : a \in AltitudeInputs }
    /\ input = << >>
    /\ pos = 0 /\ limit = 0 /\ out = << >> /\ iter = NoIter

\* BaroAltitude::get_altitude_packed(a)
PackAltitude ==
    /\ scen.name = "altitude"
    /\ result.op = "none"
    /\ result' = [op |-> "get_altitude_packed", ret |-> get_altitude_packed(scen.a)]
    /\ UNCHANGED <<buffer, state, position, input, pos, limit, out, scen, aborted, iter>>

\* get_altitude_dm of the record holding the packed value
UnpackAltitude ==
    /\ scen.name = "altitude"
    /\ result.op = "get_altitude_packed"
    /\ result' = [op |-> "get_altitude_dm", ret |-> get_altitude_dm(result.ret)]
    /\ limit' = result.ret
    /\ UNCHANGED <<buffer, state, position, input, pos, out, scen, aborted, iter>>

NextAltitude == PackAltitude \/ UnpackAltitude

SpecAltitude == InitAltitude /\ [][NextAltitude]_vars

\* C21: get_altitude_packed(a) is 0 for a < -10000, a + 10000 for
\* -10000 <= a < 22768, ((a + 5) / 10) | 0x8000 for 22768 <= a <= 327655 and
\* 0xFFFE above; it never exceeds 0xFFFE.
C21_AltitudePacking ==
    (scen.name = "altitude" /\ result.op = "get_altitude_packed") =>
        LET a == scen.a
            r == result.ret
        IN  /\ a < -10000 => r = 0
            /\ (-10000 <= a /\ a < 22768) => r = a + 10000
            /\ (22768 <= a /\ a <= 327655) => r = ((a + 5) \div 10) + 32768
            /\ a > 327655 => r = 65534
            /\ r >= 0 /\ r <= 65534
            /\ a = -10000 => r = 0
            /\ a = 0 => r = 10000
            /\ a = 22766 => r = 32766
            /\ a = 22767 => r = 32767

\* the first input packed in meters: 22768 dm gives 0x8000 | 2277
C21_Witness ==
    /\ scen.name = "altitude" /\ result.op = "get_altitude_packed"
    /\ scen.a = 22768
    /\ result.ret = 32768 + 2277


(***************************************************************************)
(* Vertical speed compression (baro_altitude.rs,                            *)
(* test_vertical_speed_packing / test_vertical_speed_unpacking)             *)
(***************************************************************************)
I16_MIN == -Pow2(15)
I16_MAX == -(I16_MIN + 1)

\* the speeds up to VSpeedDense cm/s are taken one by one, in both directions
VSpeedDense == 2800

\* i16 inputs of get_vertical_speed_packed: every value where the packed
\* value still moves, a stride through the rest, both ends of i16
VSpeedInputs ==
    (-VSpeedDense)..VSpeedDense
    \cup { 251 * k : k \in (-130)..130 }
    \cup { I16_MIN + d : d \in 0..8 } \cup { I16_MAX - d : d \in 0..8 }

\* every i8 is an input of get_vertical_speed_cm_s
InitVSpeed ==
    /\ FreshParser
    /\ scen \in { [name |-> "vspeed", fn |-> "pack", v |-> v, overflow_checks |-> c] :
                    v \in VSpeedInputs, c \in BOOLEAN }
            \cup { [name |-> "vspeed", fn |-> "unpack", v |-> v, overflow_checks |-> c] :
                    v \in (-128)..127, c \in BOOLEAN }
    /\ input = << >>
    /\ pos = 0 /\ limit = 0 /\ out = << >> /\ iter = NoIter

\* BaroAltitude::get_vertical_speed_packed(v)
PackVSpeed ==
    /\ scen.name = "vspeed" /\ scen.fn = "pack"
    /\ result.op = "none"
    /\ LET r == get_vertical_speed_packed(scen.v, scen.overflow_checks) IN
        /\ result' = [op |-> "get_vertical_speed_packed", ret |-> r]
        /\ aborted' = (r.tag = "Panic")
    /\ UNCHANGED <<buffer, state, position, input, pos, limit, out, scen, iter>>

\* get_vertical_speed_cm_s of a record whose vertical_speed_packed is v
UnpackVSpeed ==
    /\ scen.name = "vspeed" /\ scen.fn = "unpack"
    /\ result.op = "none"
    /\ LET r == get_vertical_speed_cm_s(scen.v, scen.overflow_checks) IN
        /\ result' = [op |-> "get_vertical_speed_cm_s", ret |-> r]
        /\ aborted' = (r.tag = "Panic")
    /\ UNCHANGED <<buffer, state, position, input, pos, limit, out, scen, iter>>

NextVSpeed == PackVSpeed \/ UnpackVSpeed

SpecVSpeed == InitVSpeed /\ [][NextVSpeed]_vars

Abs(x) == IF x < 0 THEN -x ELSE x

\* v / KL + 1 in millionths
SpeedRatio(v) == (Abs(v) + KL) * 10000

VPacked == scen.name = "vspeed" /\ result.op = "get_vertical_speed_packed"
VUnpacked == scen.name = "vspeed" /\ result.op = "get_vertical_speed_cm_s"

\* m = round(ln(a / 100 + 1) / 0.026) for the ratio x = a / 100 + 1
IsRoundedLog(m, x) ==
    /\ m >= 0 /\ m <= 224
    /\ (m > 0 => ExpHalfSteps[2 * m - 1] <= x)
    /\ x < ExpHalfSteps[2 * m + 1]

\* m = the integer part of ln(a / 100 + 1) / 0.026
IsTruncatedLog(m, x) ==
    /\ m >= 0 /\ m <= 224
    /\ ExpHalfSteps[2 * m] <= x
    /\ x < ExpHalfSteps[2 * m + 2]

\* C22 as stated: get_vertical_speed_packed(v) is
\* round(sign(v) * ln(|v|/100 + 1) / 0.026) and get_vertical_speed_cm_s is
\* round(sign(p) * 100 * (e^(|p| * 0.026) - 1)); packing 0 gives 0, 2500 gives
\* 125, -2500 gives -125, and unpacking 127 gives a magnitude of 2616.
C22_Rounded ==
    /\ VPacked =>
          /\ result.ret.tag = "Ok"
          /\ signum(result.ret.val) \in { 0, signum(scen.v) }
          /\ IsRoundedLog(Abs(result.ret.val), SpeedRatio(scen.v))
          /\ scen.v = 0 => result.ret.val = 0
          /\ scen.v = 2500 => result.ret.val = 125
          /\ scen.v = -2500 => result.ret.val = -125
    /\ VUnpacked =>
          /\ result.ret.tag = "Ok"
          /\ signum(result.ret.val) \in { 0, signum(scen.v) }
          /\ Abs(result.ret.val) = (ExpKR(Abs(scen.v)) - 1000000 + 5000) \div 10000
          /\ scen.v = 127 => Abs(result.ret.val) = 2616

\* C22, amended: for v in -32767..32767 get_vertical_speed_packed(v) is
\* sign(v) * ln(|v|/100 + 1) / 0.026 truncated toward zero and saturated to
\* -128..127, and for p in -127..127 get_vertical_speed_cm_s is
\* sign(p) * 100 * (e^(|p| * 0.026) - 1) truncated toward zero; packing 0 gives
\* 0, 2500 gives 125, -2500 gives -125, and unpacking 127 gives 2616.
C22_Truncated ==
    /\ (VPacked /\ scen.v # I16_MIN) =>
          /\ result.ret.tag = "Ok"
          /\ LET r == result.ret.val
                 x == SpeedRatio(scen.v)
             IN  /\ signum(r) \in { 0, signum(scen.v) }
                 /\ r >= -128 /\ r <= 127
                 /\ \/ IsTruncatedLog(Abs(r), x)
                    \/ r = 127 /\ x >= ExpKR(128)
                    \/ r = -128 /\ x >= ExpKR(129)
          /\ scen.v = 0 => result.ret.val = 0
          /\ scen.v = 2500 => result.ret.val = 125
          /\ scen.v = -2500 => result.ret.val = -125
    /\ (VUnpacked /\ scen.v # -128) =>
          /\ result.ret.tag = "Ok"
          /\ LET r == result.ret.val
                 e == ExpKR(Abs(scen.v)) - 1000000
             IN  /\ signum(r) \in { 0, signum(scen.v) }
                 /\ Abs(r) * 10000 <= e
                 /\ e < (Abs(r) + 1) * 10000
          /\ scen.v = 127 => result.ret.val = 2616
          /\ scen.v = -127 => result.ret.val = -2616

\* 127 was unpacked to 2616, where rounding would give 2617
C22_Witness ==
    /\ VUnpacked
    /\ scen.v = 127
    /\ result.ret = Ok(2616)
    /\ (ExpKR(127) - 1000000 + 5000) \div 10000 = 2617

\* a speed whose logarithm truncates and rounds differently was packed
C22_WitnessPack ==
    /\ VPacked
    /\ scen.v = 2
    /\ result.ret = Ok(0)
    /\ IsRoundedLog(1, SpeedRatio(2))


(***************************************************************************)
(* Stream readers (blocking_io.rs, async_io.rs)                             *)
(***************************************************************************)
UnexpectedEof == [name |-> "UnexpectedEof"]
InputBufferTooSmall == [name |-> "InputBufferTooSmall"]
Io(kind) == [name |-> "Io", kind |-> kind]

BLOCKING_IO_BUFFER_SIZE == CRSF_MAX_PACKET_SIZE * 2

\* the source is a byte stream and a script of what its next reads do: a
\* positive entry returns at most that many bytes, 0 returns no bytes, a
\* negative entry fails; past the script a read returns what is left
ReadSizes == { 1, 7, 64 }
ReadFaults == { 0, -1, -2 }
ErrorKind(o) == IF o = -1 THEN "TimedOut" ELSE "Other"

\* reader.read(&mut buf) at stream offset sp and script index si, for a
\* buffer of cap bytes
Read_read(stream, script, sp, si, cap) ==
    LET o == IF si < Len(script) THEN script[si + 1] ELSE cap
        left == Len(stream) - sp
        n == IF o < 0 THEN 0
             ELSE IF o < left /\ o < cap THEN o
             ELSE IF left < cap THEN left ELSE cap
    IN  [ret |-> IF o < 0 THEN Err(ErrorKind(o)) ELSE Ok(n),
         what |-> IF o < 0 THEN ErrorKind(o) ELSE IF n = 0 THEN "zero" ELSE "data",
         bytes |-> SubSeq(stream, sp + 1, sp + n),
         pos |-> sp + n,
         idx |-> IF si < Len(script) THEN si + 1 ELSE si]

\* what a read_packet call leaves: its return value, the parser, the bytes
\* still queued, the source's position, how many bytes it pushed, and what
\* the source's read did if the call returned from it
Returned(ret, p, q, sp, si, fed, read) ==
    [ret |-> ret, parser |-> p, queue |-> q, pos |-> sp, idx |-> si, fed |-> fed,
     read |-> read]

RECURSIVE BlockingCrsfReader_read_packet(_, _, _, _, _, _, _)
\* a slip: one read fills the whole queue
BlockingCrsfReader_read_packet_WideRead(stream, script, p, q, sp, si, fed) ==
    IF Len(q) > 0
    THEN LET r == push_byte(p, Head(q)) IN
         CASE r.result.kind = "Complete" ->
                Returned(Ok(r.result.val), r.parser, Tail(q), sp, si, fed + 1, "data")
           [] r.result.kind = "Incomplete" ->
                BlockingCrsfReader_read_packet(stream, script, r.parser, Tail(q), sp, si, fed + 1)
           [] r.result.kind = "Error" ->
                Returned(Err(r.result.err), r.parser, Tail(q), sp, si, fed + 1, "data")
           [] OTHER -> Returned(Panic, r.parser, Tail(q), sp, si, fed + 1, "data")
    ELSE LET rd == Read_read(stream, script, sp, si, BLOCKING_IO_BUFFER_SIZE) IN
         IF rd.ret.tag = "Err" THEN Returned(Err(Io(rd.ret.err)), p, q, rd.pos, rd.idx, fed, rd.what)
         ELSE IF rd.ret.val = 0 THEN Returned(Err(UnexpectedEof), p, q, rd.pos, rd.idx, fed, rd.what)
         ELSE IF Len(q) + rd.ret.val > BLOCKING_IO_BUFFER_SIZE
              THEN Returned(Err(InputBufferTooSmall), p,
                            q \o SubSeq(rd.bytes, 1, BLOCKING_IO_BUFFER_SIZE - Len(q)),
                            rd.pos, rd.idx, fed, rd.what)
         ELSE BlockingCrsfReader_read_packet(stream, script, p, q \o rd.bytes, rd.pos, rd.idx, fed)

\* a slip: what is still queued is dropped when a packet is returned
BlockingCrsfReader_read_packet_DropQueue(stream, script, p, q, sp, si, fed) ==
    IF Len(q) > 0
    THEN LET r == push_byte(p, Head(q)) IN
         CASE r.result.kind = "Complete" ->
                Returned(Ok(r.result.val), r.parser, << >>, sp, si, fed + 1, "data")
           [] r.result.kind = "Incomplete" ->
                BlockingCrsfReader_read_packet(stream, script, r.parser, Tail(q), sp, si, fed + 1)
           [] r.result.kind = "Error" ->
                Returned(Err(r.result.err), r.parser, Tail(q), sp, si, fed + 1, "data")
           [] OTHER -> Returned(Panic, r.parser, Tail(q), sp, si, fed + 1, "data")
    ELSE LET rd == Read_read(stream, script, sp, si, CRSF_MAX_PACKET_SIZE) IN
         IF rd.ret.tag = "Err" THEN Returned(Err(Io(rd.ret.err)), p, q, rd.pos, rd.idx, fed, rd.what)
         ELSE IF rd.ret.val = 0 THEN Returned(Err(UnexpectedEof), p, q, rd.pos, rd.idx, fed, rd.what)
         ELSE IF Len(q) + rd.ret.val > BLOCKING_IO_BUFFER_SIZE
              THEN Returned(Err(InputBufferTooSmall), p,
                            q \o SubSeq(rd.bytes, 1, BLOCKING_IO_BUFFER_SIZE - Len(q)),
                            rd.pos, rd.idx, fed, rd.what)
         ELSE BlockingCrsfReader_read_packet(stream, script, p, q \o rd.bytes, rd.pos, rd.idx, fed)

\* BlockingCrsfReader::read_packet with parser p and input_buffer q
BlockingCrsfReader_read_packet(stream, script, p, q, sp, si, fed) ==
    IF Len(q) > 0
    THEN LET r == push_byte(p, Head(q)) IN
         CASE r.result.kind = "Complete" ->
                Returned(Ok(r.result.val), r.parser, Tail(q), sp, si, fed + 1, "data")
           [] r.result.kind = "Incomplete" ->
                BlockingCrsfReader_read_packet(stream, script, r.parser, Tail(q), sp, si, fed + 1)
           [] r.result.kind = "Error" ->
                Returned(Err(r.result.err), r.parser, Tail(q), sp, si, fed + 1, "data")
           [] OTHER -> Returned(Panic, r.parser, Tail(q), sp, si, fed + 1, "data")
    ELSE LET rd == Read_read(stream, script, sp, si, CRSF_MAX_PACKET_SIZE) IN
         IF rd.ret.tag = "Err" THEN Returned(Err(Io(rd.ret.err)), p, q, rd.pos, rd.idx, fed, rd.what)
         ELSE IF rd.ret.val = 0 THEN Returned(Err(UnexpectedEof), p, q, rd.pos, rd.idx, fed, rd.what)
         ELSE IF Len(q) + rd.ret.val > BLOCKING_IO_BUFFER_SIZE
              THEN Returned(Err(InputBufferTooSmall), p,
                            q \o SubSeq(rd.bytes, 1, BLOCKING_IO_BUFFER_SIZE - Len(q)),
                            rd.pos, rd.idx, fed, rd.what)
         ELSE BlockingCrsfReader_read_packet(stream, script, p, q \o rd.bytes, rd.pos, rd.idx, fed)

RECURSIVE CrsfParser_read_packet(_, _, _, _, _, _, _)
\* the async CrsfParser::read_packet; chunk is what is left of buf[0..n] in
\* the for loop, and is dropped with buf when the call returns
CrsfParser_read_packet(stream, script, p, chunk, sp, si, fed) ==
    IF Len(chunk) > 0
    THEN LET r == push_byte(p, Head(chunk)) IN
         CASE r.result.kind = "Complete" ->
                Returned(Ok(r.result.val), r.parser, << >>, sp, si, fed + 1, "data")
           [] r.result.kind = "Incomplete" ->
                CrsfParser_read_packet(stream, script, r.parser, Tail(chunk), sp, si, fed + 1)
           [] r.result.kind = "Error" ->
                Returned(Err(r.result.err), r.parser, << >>, sp, si, fed + 1, "data")
           [] OTHER -> Returned(Panic, r.parser, << >>, sp, si, fed + 1, "data")
    ELSE LET rd == Read_read(stream, script, sp, si, 64) IN
         IF rd.ret.tag = "Err" THEN Returned(Err(Io(rd.ret.err)), p, << >>, rd.pos, rd.idx, fed, rd.what)
         ELSE IF rd.ret.val = 0 THEN Returned(Err(UnexpectedEof), p, << >>, rd.pos, rd.idx, fed, rd.what)
         ELSE CrsfParser_read_packet(stream, script, p, rd.bytes, rd.pos, rd.idx, fed)

\* the frames a source stream is made of
ReaderFrameSet == { F_Clean, F_LinkStats }

\* a stream holds at most ReaderFrames frames, a script at most MaxReads reads
ReaderFrames == 2
MaxReads == 3

SeqsUpTo(S, n) == UNION { [1..k -> S] : k \in 0..n }

InitReader ==
    /\ FreshParser
    /\ scen \in { [name |-> "reader", kind |-> kd, frames |-> fs, script |-> sc] :
                    kd \in { "blocking", "async" },
                    fs \in SeqsUpTo(ReaderFrameSet, ReaderFrames) \ { << >> },
                    sc \in SeqsUpTo(ReadSizes \cup ReadFaults, MaxReads) }
    /\ input = Concat(scen.frames)
    /\ pos = 0 /\ limit = 0 /\ out = << >> /\ iter = NoIter

\* the calls made so far, the packets they returned, the bytes they pushed
Calls == IF result.op = "read_packet" THEN result.call ELSE 0
Oks == IF result.op = "read_packet" THEN result.oks ELSE 0
Fed == IF result.op = "read_packet" THEN result.fed ELSE 0

\* a program calls read_packet until it has seen every frame, and once more
\* for each read of the script
MaxCalls == Len(scen.frames) + Len(scen.script) + 1

AfterReadPacket(r) ==
    /\ SetParser(r.parser)
    /\ out' = r.queue
    /\ pos' = r.pos
    /\ limit' = r.idx
    /\ result' = [op |-> "read_packet", ret |-> r.ret, call |-> Calls + 1,
                  oks |-> IF r.ret.tag = "Ok" THEN Oks + 1 ELSE Oks,
                  fed |-> r.fed,
                  read |-> r.read]
    /\ aborted' = (r.ret.tag = "Panic")
    /\ UNCHANGED <<input, scen, iter>>

\* reader.read_packet() on a BlockingCrsfReader
ReadPacketBlocking ==
    /\ scen.name = "reader" /\ scen.kind = "blocking"
    /\ ~aborted /\ Calls < MaxCalls
    /\ AfterReadPacket(BlockingCrsfReader_read_packet(input, scen.script, Parser, out, pos, limit, Fed))

\* parser.read_packet(&mut reader).await
ReadPacketAsync ==
    /\ scen.name = "reader" /\ scen.kind = "async"
    /\ ~aborted /\ Calls < MaxCalls
    /\ AfterReadPacket(CrsfParser_read_packet(input, scen.script, Parser, << >>, pos, limit, Fed))

NextReader == ReadPacketBlocking \/ ReadPacketAsync

SpecReader == InitReader /\ [][NextReader]_vars

\* the packet of the n-th frame of the stream
PacketOf(n) == PushAll(CrsfParser_new, scen.frames[n], << >>).items

NoFault(script) == \A i \in 1..Len(script) : script[i] > 0
ReadCall == scen.name = "reader" /\ result.op = "read_packet"

\* C23: when the source delivers a concatenation of well-formed frames
\* f1..fk, however it splits them across reads, the i-th read_packet call
\* returns Ok(packet of fi) for i = 1..k, and every byte the source has
\* delivered was either pushed into the parser or is still queued.
C23_OnePacketPerCall ==
    (ReadCall /\ NoFault(scen.script)) =>
        /\ result.call <= Len(scen.frames) => << result.ret >> = PacketOf(result.call)
        /\ result.fed + Len(out) = pos

\* C24: a read of 0 bytes before a frame completes makes read_packet return
\* Err(UnexpectedEof), a failed read makes it return Err(Io(kind)); the parser
\* keeps what it consumed, so the calls that follow return the packets of the
\* stream's frames in order once the source supplies the remaining bytes.
C24_Resumable ==
    (ReadCall /\ \E i \in 1..limit : scen.script[i] <= 0) =>
        /\ result.ret.tag # "Ok" =>
              /\ result.read # "data"
              /\ result.ret = IF result.read = "zero" THEN Err(UnexpectedEof)
                              ELSE Err(Io(result.read))
        /\ result.ret.tag = "Ok" => << result.ret >> = PacketOf(result.oks)


(***************************************************************************)
(* One frame through push_byte_raw, byte by byte (parser.rs,                *)
(* test_construction)                                                       *)
(***************************************************************************)
\* the bytes a frame body is filled with: zeros, an address value, all ones,
\* or a ramp
FillKinds == { "zero", "address", "ones", "ramp" }
Fill(kind, n) ==
    [i \in 1..n |-> CASE kind = "zero" -> 0
                      [] kind = "address" -> 200
                      [] kind = "ones" -> 255
                      [] OTHER -> (7 * i) % 256]

\* the byte pushed after the scenario's bytes: an address and a byte that is
\* none
AfterBytes == { 200, 5 }
FrameSyncs == { 200, 0 }

\* the length bytes of the frames the parser lets in
FrameLens == (CRSF_MIN_PACKET_SIZE - 2)..(CRSF_MAX_PACKET_SIZE - 3)

\* a first byte alone; an address and a length byte; an address, a length
\* byte L, L - 1 bytes and a last byte that is the CRC of those or is not
InitFrame ==
    /\ FreshParser
    /\ scen \in { [name |-> "frame", family |-> "sync", bytes |-> << b >>, after |-> a] :
                    b \in Byte, a \in AfterBytes }
            \cup { [name |-> "frame", family |-> "length", bytes |-> << s, b >>, after |-> a] :
                    s \in FrameSyncs, b \in Byte, a \in AfterBytes }
            \cup { [name |-> "frame", family |-> "frame", after |-> a,
                    bytes |-> << s, L >> \o Fill(k, L - 1)
                              \o << (Crc8(Fill(k, L - 1)) + d) % 256 >>] :
                    s \in FrameSyncs, L \in FrameLens, k \in FillKinds,
                    d \in { 0, 1 }, a \in AfterBytes }
    /\ input = scen.bytes \o << scen.after >>
    /\ pos = 0 /\ limit = 0 /\ out = << >> /\ iter = NoIter

SpecFrame == InitFrame /\ [][FeedRaw]_vars

InvalidSyncOf(b) == [name |-> "InvalidSync", byte |-> b]

\* C25: in AwaitingSync push_byte_raw(b) accepts b exactly when b is a
\* PacketAddress; then the cursor is 0, b is at buffer[0], the state is
\* AwaitingLenth and the result Incomplete; otherwise the result is an
\* InvalidSync error carrying b and state, cursor and buffer are unchanged.
C25_AwaitingSync ==
    [][(scen.name = "frame" /\ state = AwaitingSync /\ pos' = pos + 1) =>
        LET b == input[pos + 1] IN
        IF b \in PacketAddress
        THEN /\ position' = 0
             /\ buffer'[0] = b
             /\ state' = AwaitingLenth
             /\ result'.ret = Incomplete
        ELSE /\ result'.ret = Error(InvalidSyncOf(b))
             /\ state' = state /\ position' = position /\ buffer' = buffer]_vars

C26_WitnessAccepted ==
    /\ scen.name = "frame" /\ scen.family = "length" /\ pos = 2
    /\ scen.bytes[2] = 61
    /\ out[2] = Incomplete
    /\ state = Reading(62)

FrameLen == scen.bytes[2]
InFrame == scen.name = "frame" /\ scen.family = "frame"

\* C27: after an accepted address byte and an accepted length byte L the next
\* L - 1 bytes are answered with Incomplete whatever they are, and the L-th
\* byte after the length byte is answered with Complete or with InvalidCrc,
\* also for L = 2.
C27_ByteCount ==
    InFrame =>
        /\ \A k \in 1..pos : k <= FrameLen + 1 => out[k] = Incomplete
        /\ pos >= FrameLen + 2 =>
              \/ out[FrameLen + 2].kind = "Complete"
              \/ /\ out[FrameLen + 2].kind = "Error"
                 /\ out[FrameLen + 2].err.name = "InvalidCrc"

\* the shortest frame was decided on its fourth byte
C27_Witness ==
    /\ InFrame /\ FrameLen = 2 /\ pos = 4
    /\ out[3] = Incomplete
    /\ out[4].kind = "Complete"

\* the longest frame was decided on its 63rd byte, after address values
C27_WitnessLong ==
    /\ InFrame /\ FrameLen = 61 /\ pos = 63
    /\ scen.bytes[10] = 200
    /\ out[63].kind = "Error"

\* C28: on Complete the frame returned is the last L + 2 bytes pushed, the
\* cursor is 0 and the parser is in AwaitingSync, and the byte pushed next is
\* taken as the first byte of a new frame.
C28_CompleteFrame ==
    InFrame =>
        \A k \in 1..pos : out[k].kind = "Complete" =>
            /\ k = FrameLen + 2
            /\ out[k].val = SubSeq(input, k - FrameLen - 1, k)
            /\ pos = k => (state = AwaitingSync /\ position = 0)
            /\ pos = k + 1 =>
                  IF input[k + 1] \in PacketAddress
                  THEN /\ out[k + 1] = Incomplete
                       /\ state = AwaitingLenth /\ position = 0
                       /\ buffer[0] = input[k + 1]
                  ELSE /\ out[k + 1].kind = "Error"
                       /\ state = AwaitingSync

\* a frame was returned and the next byte started a new one
C28_Witness ==
    /\ InFrame /\ FrameLen = 12
    /\ pos = FrameLen + 3
    /\ out[FrameLen + 2] = Complete(SubSeq(input, 1, FrameLen + 2))
    /\ state = AwaitingLenth /\ buffer[0] = 200 /\ buffer[1] = 12


(***************************************************************************)
(* RcChannelsPacked decoded from a 22-byte payload and encoded again       *)
(* (rc_channels_packed.rs, test_rc_channels_from_hardware_bytes)            *)
(***************************************************************************)
\* the payload of test_rc_channels_from_hardware_bytes
HardwarePayload ==
    << 3, 31, 88, 192, 7, 22, 176, 128, 5, 44, 96, 1, 11, 248, 192, 7,
       0, 0, 0, 0, 0, 252 >>

PayloadBits == 8 * RcChannelsPacked_MIN_PAYLOAD_SIZE

\* the payload with only bit j set, counting from the low bit of byte 0
OneBit(j) ==
    [i \in 1..RcChannelsPacked_MIN_PAYLOAD_SIZE |->
        IF i = j \div 8 + 1 THEN Pow2(j % 8) ELSE 0]

\* payloads of 22 bytes: each bit alone, each bit missing, the two payloads
\* of the tests, all zeros, all ones, ramps
Payloads ==
    { OneBit(j) : j \in 0..(PayloadBits - 1) }
    \cup { [i \in 1..RcChannelsPacked_MIN_PAYLOAD_SIZE |-> 255 - OneBit(j)[i]] :
              j \in 0..(PayloadBits - 1) }
    \cup { HardwarePayload, SubSeq(F_RcChannels, 4, 25) }
    \cup { Repeat(0, RcChannelsPacked_MIN_PAYLOAD_SIZE),
           Repeat(255, RcChannelsPacked_MIN_PAYLOAD_SIZE) }
    \cup { [i \in 1..RcChannelsPacked_MIN_PAYLOAD_SIZE |-> (m * i + 3 * m) % 256] :
              m \in { 7, 37, 101, 171 } }

InitPayload ==
    /\ FreshParser
    /\ scen \in { [name |-> "payload", b |-> b] : b \in Payloads }
    /\ input = scen.b
    /\ pos = 0 /\ limit = 0 /\ out = << >> /\ iter = NoIter

\* let rc = RcChannelsPacked::from_bytes(&payload)
DecodePayload ==
    /\ scen.name = "payload"
    /\ result.op = "none"
    /\ result' = [op |-> "from_bytes", ret |-> RcChannelsPacked_from_bytes(input)]
    /\ UNCHANGED <<buffer, state, position, input, pos, limit, out, scen, aborted, iter>>

\* rc.to_bytes(&mut buffer) with buffer = [0; 22]: out is the buffer after
\* the call, limit the count returned
EncodeDecoded ==
    /\ scen.name = "payload"
    /\ result.op = "from_bytes" /\ result.ret.tag = "Ok"
    /\ LET e == RcChannelsPacked_to_bytes(result.ret.val, RcChannelsPacked_MIN_PAYLOAD_SIZE) IN
        /\ out' = IF e.tag = "Ok" THEN e.val ELSE Repeat(0, RcChannelsPacked_MIN_PAYLOAD_SIZE)
        /\ limit' = IF e.tag = "Ok" THEN Len(e.val) ELSE 0
        /\ result' = [op |-> "to_bytes", ret |-> e]
    /\ UNCHANGED <<buffer, state, position, input, pos, scen, aborted, iter>>

NextPayload == DecodePayload \/ EncodeDecoded

SpecPayload == InitPayload /\ [][NextPayload]_vars

\* bit j of a payload read as a little-endian bit stream
BitOf(b, j) == (b[j \div 8 + 1] \div Pow2(j % 8)) % 2

RECURSIVE BitsValue(_, _, _)
\* the value of the n bits of b from bit j on, the first one lowest
BitsValue(b, j, n) == IF n = 0 THEN 0 ELSE BitOf(b, j) + 2 * BitsValue(b, j + 1, n - 1)

\* C29: from_bytes of a 22-byte payload returns, for each i in 0..15, the
\* 11-bit value of bits 11 i .. 11 i + 10 of the payload read as a
\* little-endian bit stream, so every channel is in 0..2047.
C29_DecodeLayout ==
    (scen.name = "payload" /\ result.op = "from_bytes") =>
        /\ result.ret.tag = "Ok"
        /\ \A i \in 0..15 :
              /\ result.ret.val.ch[i] = BitsValue(scen.b, 11 * i, 11)
              /\ result.ret.val.ch[i] \in 0..2047

\* the payload of the test was decoded to the channels the test of the
\* parser expects
C29_Witness ==
    /\ scen.name = "payload" /\ result.op = "from_bytes"
    /\ scen.b = SubSeq(F_RcChannels, 4, 25)
    /\ result.ret.tag = "Ok"
    /\ [i \in 1..16 |-> result.ret.val.ch[i - 1]]
         = << 992, 992, 352, 992, 352, 352, 352, 352, 352, 352, 992, 992, 0, 0, 0, 0 >>

\* C30: from_bytes of a 22-byte payload b followed by to_bytes gives b back.
C30_ReencodeInverse ==
    (scen.name = "payload" /\ result.op = "to_bytes") =>
        /\ result.ret.tag = "Ok"
        /\ limit = RcChannelsPacked_MIN_PAYLOAD_SIZE
        /\ out = scen.b

\* the payload of the hardware test, with all bits of its last byte but two
\* set, came back
C30_Witness ==
    /\ scen.name = "payload" /\ result.op = "to_bytes"
    /\ scen.b = HardwarePayload
    /\ out = HardwarePayload
    /\ out[22] = 252


(***************************************************************************)
(* MavlinkEnvelope built, written and read back (mavlink_envelope.rs,      *)
(* test_mavlink_envelope_round_trip)                                        *)
(***************************************************************************)
\* chunk numbers: those of the tests, the ends of a nibble and of a u8
ChunkNumbers == { 0, 2, 5, 9, 10, 15, 16, 17, 255 }

\* the data is a ramp from a first byte, of every length new accepts and
\* one more
EnvelopeData == { [i \in 1..n |-> (f + i) % 256] :
                    n \in 0..(MavlinkEnvelope_CAPACITY + 1), f \in { 0, 253 } }

InitEnvelope ==
    /\ FreshParser
    /\ scen \in { [name |-> "envelope", total_chunks |-> t, current_chunk |-> c, data |-> d] :
                    t \in ChunkNumbers, c \in ChunkNumbers, d \in EnvelopeData }
    /\ input = Repeat(0, MAX_PAYLOAD_SIZE)
    /\ pos = 0 /\ limit = 0 /\ out = << >> /\ iter = NoIter

\* let packet = MavlinkEnvelope::new(total_chunks, current_chunk, &data)
EnvelopeNew ==
    /\ scen.name = "envelope"
    /\ result.op = "none"
    /\ result' = [op |-> "new",
                  ret |-> MavlinkEnvelope_new(scen.total_chunks, scen.current_chunk, scen.data)]
    /\ UNCHANGED <<buffer, state, position, input, pos, limit, out, scen, aborted, iter>>

\* packet.to_bytes(&mut buffer) with buffer = [0u8; 60]: input is the buffer,
\* limit the count returned
EnvelopeToBytes ==
    /\ scen.name = "envelope"
    /\ result.op = "new" /\ result.ret.tag = "Ok"
    /\ LET e == MavlinkEnvelope_to_bytes(result.ret.val, Len(input)) IN
        /\ input' = IF e.tag = "Ok"
                    THEN e.val \o SubSeq(input, Len(e.val) + 1, Len(input))
                    ELSE input
        /\ limit' = IF e.tag = "Ok" THEN Len(e.val) ELSE 0
        /\ result' = [op |-> "to_bytes", ret |-> e, packet |-> result.ret.val]
    /\ UNCHANGED <<buffer, state, position, pos, out, scen, aborted, iter>>

\* MavlinkEnvelope::from_bytes(&buffer[..len])
EnvelopeFromBytes ==
    /\ scen.name = "envelope"
    /\ result.op = "to_bytes" /\ result.ret.tag = "Ok"
    /\ result' = [op |-> "from_bytes", ret |-> MavlinkEnvelope_from_bytes(Slice(input, 0, limit)),
                  packet |-> result.packet]
    /\ UNCHANGED <<buffer, state, position, input, pos, limit, out, scen, aborted, iter>>

NextEnvelope == EnvelopeNew \/ EnvelopeToBytes \/ EnvelopeFromBytes

SpecEnvelope == InitEnvelope /\ [][NextEnvelope]_vars

\* C33: a packet built by MavlinkEnvelope::new, whatever its chunk numbers
\* and with data of at most 58 bytes, is written by to_bytes and read back by
\* from_bytes as a packet equal to it.
C33_EnvelopeRoundTrip ==
    /\ (scen.name = "envelope" /\ result.op = "new") =>
          (result.ret.tag = "Ok" <=> Len(scen.data) <= 58)
    /\ (scen.name = "envelope" /\ result.op = "to_bytes") => result.ret.tag = "Ok"
    /\ (scen.name = "envelope" /\ result.op = "from_bytes") =>
          result.ret = Ok(result.packet)


(***************************************************************************)
(* packets/commands.rs: DirectCommands and its inner checksum               *)
(***************************************************************************)
COMMAND_CRC_POLY == 186

CommandCrcRound(x) == IF x >= 128 THEN BitXor((x * 2) % 256, COMMAND_CRC_POLY) ELSE x * 2

CommandCrcTable ==
    [i \in Byte |->
        CommandCrcRound(CommandCrcRound(CommandCrcRound(CommandCrcRound(
        CommandCrcRound(CommandCrcRound(CommandCrcRound(CommandCrcRound(i))))))))]

RECURSIVE CommandCrcUpdate(_, _)
\* digest.update(bytes) of COMMAND_CRC_ALGO from the running value digest
CommandCrcUpdate(digest, bytes) ==
    IF Len(bytes) = 0 \/ digest \notin Byte THEN digest
    ELSE CommandCrcUpdate(CommandCrcTable[BitXor(digest, Head(bytes))], Tail(bytes))

Command_PACKET_TYPE == 50
DirectCommands_MIN_PAYLOAD_SIZE == 4

\* the digest over [type, dst, src, cmd_id, payload...]
CommandCrc(bytes) == CommandCrcUpdate(0, << Command_PACKET_TYPE >> \o bytes)

COMMAND_ID_FC == 1
COMMAND_ID_OSD == 5
COMMAND_ID_VTX == 8
COMMAND_ID_CROSSFIRE == 16
COMMAND_ID_FLOW_CONTROL == 32
COMMAND_ID_ACK == 255

SUB_COMMAND_ID_FC_FORCE_DISARM == 1
SUB_COMMAND_ID_FC_SCALE_CHANNEL == 2
SUB_COMMAND_ID_OSD_SEND_BUTTONS == 1
SUB_COMMAND_ID_VTX_SET_FREQUENCY == 2
SUB_COMMAND_ID_VTX_ENABLE_PIT_MODE_ON_POWER_UP == 4
SUB_COMMAND_ID_VTX_POWER_UP_FROM_PIT_MODE == 5
SUB_COMMAND_ID_VTX_SET_DYNAMIC_POWER == 6
SUB_COMMAND_ID_VTX_SET_POWER == 8
SUB_COMMAND_ID_CROSSFIRE_SET_RECEIVER_IN_BIND_MODE == 1
SUB_COMMAND_ID_CROSSFIRE_CANCEL_BIND_MODE == 2
SUB_COMMAND_ID_CROSSFIRE_SET_BIND_ID == 3
SUB_COMMAND_ID_CROSSFIRE_MODEL_SELECTION == 5
SUB_COMMAND_ID_CROSSFIRE_CURRENT_MODEL_SELECTION == 6
SUB_COMMAND_ID_CROSSFIRE_REPLY_CURRENT_MODEL_SELECTION == 7
SUB_COMMAND_ID_FLOW_CONTROL_SUBSCRIBE == 1
SUB_COMMAND_ID_FLOW_CONTROL_UNSUBSCRIBE == 2

CommandAck_CAPACITY == 48

\* a CommandPayload is held as [family, kind, the fields of the variant]
Cmd(family, kind) == [family |-> family, kind |-> kind]
Cmd1(family, kind, v) == [family |-> family, kind |-> kind, v |-> v]

\* the bytes a write_to puts at the start of its buffer; the index panics
\* when the buffer is shorter
Put(bytes, cap) == IF cap < Len(bytes) THEN Panic ELSE Ok(bytes)

FcCommand_write_to(cmd, cap) ==
    CASE cmd.kind = "ForceDisarm" -> Put(<< SUB_COMMAND_ID_FC_FORCE_DISARM >>, cap)
      [] cmd.kind = "ScaleChannel" -> Put(<< SUB_COMMAND_ID_FC_SCALE_CHANNEL >>, cap)

\* data[0] panics on an empty slice
FcCommand_try_from(data) ==
    IF Len(data) < 1 THEN Panic
    ELSE CASE At(data, 0) = SUB_COMMAND_ID_FC_FORCE_DISARM -> Ok(Cmd("Fc", "ForceDisarm"))
           [] At(data, 0) = SUB_COMMAND_ID_FC_SCALE_CHANNEL -> Ok(Cmd("Fc", "ScaleChannel"))
           [] OTHER -> Err(InvalidPayload)

OsdCommand_write_to(cmd, cap) == Put(<< SUB_COMMAND_ID_OSD_SEND_BUTTONS, cmd.v >>, cap)

OsdCommand_try_from(data) ==
    IF Len(data) < 1 THEN Panic
    ELSE IF At(data, 0) = SUB_COMMAND_ID_OSD_SEND_BUTTONS
         THEN IF Len(data) < 2 THEN Panic ELSE Ok(Cmd1("Osd", "SendButtons", At(data, 1)))
         ELSE Err(InvalidPayload)

VtxCommand_write_to(cmd, cap) ==
    CASE cmd.kind = "SetFrequency" ->
           Put(<< SUB_COMMAND_ID_VTX_SET_FREQUENCY >> \o ToBe(cmd.v, 2), cap)
      [] cmd.kind = "EnablePitModeOnPowerUp" ->
           Put(<< SUB_COMMAND_ID_VTX_ENABLE_PIT_MODE_ON_POWER_UP,
                  BitOr(BitOr(IF cmd.pit_mode THEN 1 ELSE 0, U8(cmd.pit_mode_control * 2)),
                        U8(cmd.pit_mode_switch * 8)) >>, cap)
      [] cmd.kind = "PowerUpFromPitMode" -> Put(<< SUB_COMMAND_ID_VTX_POWER_UP_FROM_PIT_MODE >>, cap)
      [] cmd.kind = "SetDynamicPower" -> Put(<< SUB_COMMAND_ID_VTX_SET_DYNAMIC_POWER, cmd.v >>, cap)
      [] cmd.kind = "SetPower" -> Put(<< SUB_COMMAND_ID_VTX_SET_POWER, cmd.v >>, cap)

\* payload[0..2] and payload[0] panic when payload (rest) is shorter
VtxCommand_try_from(data) ==
    IF Len(data) < 1 THEN Panic
    ELSE LET sub_command_id == At(data, 0)
             rest == Slice(data, 1, Len(data))
         IN  CASE sub_command_id = SUB_COMMAND_ID_VTX_SET_FREQUENCY ->
                    IF Len(rest) < 2 THEN Panic
                    ELSE Ok(Cmd1("Vtx", "SetFrequency", FromBe(Slice(rest, 0, 2))))
               [] sub_command_id = SUB_COMMAND_ID_VTX_ENABLE_PIT_MODE_ON_POWER_UP ->
                    IF Len(rest) < 1 THEN Panic
                    ELSE LET byte == At(rest, 0) IN
                         Ok([family |-> "Vtx", kind |-> "EnablePitModeOnPowerUp",
                             pit_mode |-> BitAnd(byte, 1) # 0,
                             pit_mode_control |-> BitAnd(Shr(byte, 1), 3),
                             pit_mode_switch |-> BitAnd(Shr(byte, 3), 15)])
               [] sub_command_id = SUB_COMMAND_ID_VTX_POWER_UP_FROM_PIT_MODE ->
                    Ok(Cmd("Vtx", "PowerUpFromPitMode"))
               [] sub_command_id = SUB_COMMAND_ID_VTX_SET_DYNAMIC_POWER ->
                    IF Len(rest) < 1 THEN Panic
                    ELSE Ok(Cmd1("Vtx", "SetDynamicPower", At(rest, 0)))
               [] sub_command_id = SUB_COMMAND_ID_VTX_SET_POWER ->
                    IF Len(rest) < 1 THEN Panic
                    ELSE Ok(Cmd1("Vtx", "SetPower", At(rest, 0)))
               [] OTHER -> Err(InvalidPayload)

CrossfireCommand_write_to(cmd, cap) ==
    CASE cmd.kind = "SetReceiverInBindMode" ->
           Put(<< SUB_COMMAND_ID_CROSSFIRE_SET_RECEIVER_IN_BIND_MODE >>, cap)
      [] cmd.kind = "CancelBindMode" -> Put(<< SUB_COMMAND_ID_CROSSFIRE_CANCEL_BIND_MODE >>, cap)
      [] cmd.kind = "SetBindId" -> Put(<< SUB_COMMAND_ID_CROSSFIRE_SET_BIND_ID >>, cap)
      [] cmd.kind = "ModelSelection" ->
           Put(<< SUB_COMMAND_ID_CROSSFIRE_MODEL_SELECTION, cmd.v >>, cap)
      [] cmd.kind = "CurrentModelSelection" ->
           Put(<< SUB_COMMAND_ID_CROSSFIRE_CURRENT_MODEL_SELECTION >>, cap)
      [] cmd.kind = "ReplyCurrentModelSelection" ->
           Put(<< SUB_COMMAND_ID_CROSSFIRE_REPLY_CURRENT_MODEL_SELECTION, cmd.v >>, cap)

CrossfireCommand_try_from(data) ==
    IF Len(data) < 1 THEN Panic
    ELSE LET sub_command_id == At(data, 0)
             rest == Slice(data, 1, Len(data))
         IN  CASE sub_command_id = SUB_COMMAND_ID_CROSSFIRE_SET_RECEIVER_IN_BIND_MODE ->
                    Ok(Cmd("Crossfire", "SetReceiverInBindMode"))
               [] sub_command_id = SUB_COMMAND_ID_CROSSFIRE_CANCEL_BIND_MODE ->
                    Ok(Cmd("Crossfire", "CancelBindMode"))
               [] sub_command_id = SUB_COMMAND_ID_CROSSFIRE_SET_BIND_ID ->
                    Ok(Cmd("Crossfire", "SetBindId"))
               [] sub_command_id = SUB_COMMAND_ID_CROSSFIRE_MODEL_SELECTION ->
                    IF Len(rest) < 1 THEN Panic
                    ELSE Ok(Cmd1("Crossfire", "ModelSelection", At(rest, 0)))
               [] sub_command_id = SUB_COMMAND_ID_CROSSFIRE_CURRENT_MODEL_SELECTION ->
                    Ok(Cmd("Crossfire", "CurrentModelSelection"))
               [] sub_command_id = SUB_COMMAND_ID_CROSSFIRE_REPLY_CURRENT_MODEL_SELECTION ->
                    IF Len(rest) < 1 THEN Panic
                    ELSE Ok(Cmd1("Crossfire", "ReplyCurrentModelSelection", At(rest, 0)))
               [] OTHER -> Err(InvalidPayload)

FlowControlCommand_write_to(cmd, cap) ==
    CASE cmd.kind = "Subscribe" ->
           Put(<< SUB_COMMAND_ID_FLOW_CONTROL_SUBSCRIBE, cmd.frame_type >>
               \o ToBe(cmd.max_interval_time, 2), cap)
      [] cmd.kind = "Unsubscribe" ->
           Put(<< SUB_COMMAND_ID_FLOW_CONTROL_UNSUBSCRIBE, cmd.frame_type >>, cap)

\* payload[1..3] is taken before payload[0]
FlowControlCommand_try_from(data) ==
    IF Len(data) < 1 THEN Panic
    ELSE LET sub_command_id == At(data, 0)
             rest == Slice(data, 1, Len(data))
         IN  CASE sub_command_id = SUB_COMMAND_ID_FLOW_CONTROL_SUBSCRIBE ->
                    IF Len(rest) < 3 THEN Panic
                    ELSE Ok([family |-> "FlowControl", kind |-> "Subscribe",
                             frame_type |-> At(rest, 0),
                             max_interval_time |-> FromBe(Slice(rest, 1, 3))])
               [] sub_command_id = SUB_COMMAND_ID_FLOW_CONTROL_UNSUBSCRIBE ->
                    IF Len(rest) < 1 THEN Panic
                    ELSE Ok([family |-> "FlowControl", kind |-> "Unsubscribe",
                             frame_type |-> At(rest, 0)])
               [] OTHER -> Err(InvalidPayload)

CommandAck_write_to(cmd, cap) ==
    LET required_len == 3 + Len(cmd.information) IN
    IF cap < required_len THEN Err(BufferOverflow)
    ELSE Ok(<< cmd.command_id, cmd.sub_command_id, cmd.action >> \o cmd.information)

CommandAck_try_from(data) ==
    IF Len(data) < 3 THEN Err(InvalidPayloadLength)
    ELSE IF Len(data) - 3 > CommandAck_CAPACITY THEN Err(BufferOverflow)
    ELSE Ok([family |-> "Ack", kind |-> "Ack",
             command_id |-> At(data, 0), sub_command_id |-> At(data, 1),
             action |-> At(data, 2), information |-> Slice(data, 3, Len(data))])

\* CommandPayload::command_id
command_id(cmd) ==
    CASE cmd.family = "Fc" -> COMMAND_ID_FC
      [] cmd.family = "Osd" -> COMMAND_ID_OSD
      [] cmd.family = "Vtx" -> COMMAND_ID_VTX
      [] cmd.family = "Crossfire" -> COMMAND_ID_CROSSFIRE
      [] cmd.family = "FlowControl" -> COMMAND_ID_FLOW_CONTROL
      [] cmd.family = "Ack" -> COMMAND_ID_ACK

\* CommandPayload::write_to
write_to(cmd, cap) ==
    CASE cmd.family = "Fc" -> FcCommand_write_to(cmd, cap)
      [] cmd.family = "Osd" -> OsdCommand_write_to(cmd, cap)
      [] cmd.family = "Vtx" -> VtxCommand_write_to(cmd, cap)
      [] cmd.family = "Crossfire" -> CrossfireCommand_write_to(cmd, cap)
      [] cmd.family = "FlowControl" -> FlowControlCommand_write_to(cmd, cap)
      [] cmd.family = "Ack" -> CommandAck_write_to(cmd, cap)

\* DirectCommands::to_bytes into a buffer of cap bytes: the bytes written
DirectCommands_to_bytes(r, cap) ==
    IF cap < 3 THEN Panic
    ELSE LET w == write_to(r.payload, cap - 3) IN
         IF w.tag # "Ok" THEN w
         ELSE LET head == << r.dst_addr, r.src_addr, command_id(r.payload) >> \o w.val
                  total_len == Len(head)
              IN  IF cap < total_len + 1 THEN Err(BufferOverflow)
                  ELSE Ok(head \o << CommandCrc(head) >>)

DirectCommands_from_bytes(data) ==
    IF Len(data) < DirectCommands_MIN_PAYLOAD_SIZE THEN Err(InvalidPayloadLength)
    ELSE LET crc_byte_index == Len(data) - 1
             received_crc == At(data, crc_byte_index)
             calculated_crc == CommandCrc(Slice(data, 0, crc_byte_index))
         IN  IF received_crc # calculated_crc THEN Err(InvalidPayload)
             ELSE LET cid == At(data, 2)
                      command_payload_data == Slice(data, 3, crc_byte_index)
                      cmd == CASE cid = COMMAND_ID_FC -> FcCommand_try_from(command_payload_data)
                               [] cid = COMMAND_ID_OSD -> OsdCommand_try_from(command_payload_data)
                               [] cid = COMMAND_ID_VTX -> VtxCommand_try_from(command_payload_data)
                               [] cid = COMMAND_ID_CROSSFIRE ->
                                    CrossfireCommand_try_from(command_payload_data)
                               [] cid = COMMAND_ID_FLOW_CONTROL ->
                                    FlowControlCommand_try_from(command_payload_data)
                               [] cid = COMMAND_ID_ACK -> CommandAck_try_from(command_payload_data)
                               [] OTHER -> Err(InvalidPayload)
                  IN  IF cmd.tag # "Ok" THEN cmd
                      ELSE Ok([dst_addr |-> At(data, 0), src_addr |-> At(data, 1),
                               payload |-> cmd.val])


(***************************************************************************)
(* DirectCommands written and read back, and read from arbitrary payloads   *)
(* (commands.rs, test_round_trip, test_from_bytes_invalid_crc)              *)
(***************************************************************************)
\* values of a u8 field: the ends, the ends of 2 and 4 bits, the tests'
FieldBytes == { 0, 1, 3, 4, 5, 15, 16, 168, 255 }
FieldWords == { 0, 256, 1000, 5800, 65535 }
CommandAddresses == { << 200, 234 >>, << 234, 238 >>, << 0, 255 >> }

CommandPayloads ==
    { Cmd("Fc", k) : k \in { "ForceDisarm", "ScaleChannel" } }
    \cup { Cmd1("Osd", "SendButtons", v) : v \in FieldBytes }
    \cup { Cmd1("Vtx", "SetFrequency", v) : v \in FieldWords }
    \cup { [family |-> "Vtx", kind |-> "EnablePitModeOnPowerUp", pit_mode |-> m,
            pit_mode_control |-> c, pit_mode_switch |-> w] :
              m \in BOOLEAN, c \in { 0, 1, 3, 4, 255 }, w \in { 0, 5, 15, 16, 255 } }
    \cup { Cmd("Vtx", "PowerUpFromPitMode") }
    \cup { Cmd1("Vtx", k, v) : k \in { "SetDynamicPower", "SetPower" }, v \in FieldBytes }
    \cup { Cmd("Crossfire", k) :
              k \in { "SetReceiverInBindMode", "CancelBindMode", "SetBindId",
                      "CurrentModelSelection" } }
    \cup { Cmd1("Crossfire", k, v) :
              k \in { "ModelSelection", "ReplyCurrentModelSelection" }, v \in FieldBytes }
    \cup { [family |-> "FlowControl", kind |-> "Subscribe", frame_type |-> f,
            max_interval_time |-> t] : f \in { 0, 20, 255 }, t \in FieldWords }
    \cup { [family |-> "FlowControl", kind |-> "Unsubscribe", frame_type |-> f] :
              f \in { 0, 20, 255 } }
    \cup { [family |-> "Ack", kind |-> "Ack", command_id |-> 16, sub_command_id |-> 1,
            action |-> a, information |-> [i \in 1..n |-> (78 + i) % 256]] :
              a \in { 0, 1 }, n \in 0..CommandAck_CAPACITY }

CommandPackets ==
    { [dst_addr |-> a[1], src_addr |-> a[2], payload |-> c] :
        a \in CommandAddresses, c \in CommandPayloads }

\* the payloads given to from_bytes: fewer than four bytes; three header
\* bytes with each command id or an unknown one, the first bytes of a
\* sub-payload (none of them, some, all, with an unknown sub-command id, or
\* more than an Ack holds), and a last byte that is the checksum or is not
SubPayloads ==
    UNION { { SubSeq(w.val, 1, k) : k \in 0..Len(w.val) } :
              w \in { write_to(c, MAX_PAYLOAD_SIZE) : c \in CommandPayloads } }
    \cup { << 9 >>, << 9, 1, 2, 3 >> }
    \cup { [i \in 1..n |-> i] : n \in (CommandAck_CAPACITY + 3)..(MAX_PAYLOAD_SIZE - 5) }

CommandData ==
    { Repeat(50, n) : n \in 0..3 }
    \cup { << 200, 234, id >> \o sub \o << (CommandCrc(<< 200, 234, id >> \o sub) + d) % 256 >> :
              id \in { COMMAND_ID_FC, COMMAND_ID_OSD, COMMAND_ID_VTX, COMMAND_ID_CROSSFIRE,
                       COMMAND_ID_FLOW_CONTROL, COMMAND_ID_ACK, 0 },
              sub \in SubPayloads, d \in { 0, 1 } }

InitCommands ==
    /\ FreshParser
    /\ scen \in { [name |-> "command", packet |-> c] : c \in CommandPackets }
            \cup { [name |-> "cmdbytes", data |-> d] :
                     d \in { x \in CommandData : Len(x) <= MAX_PAYLOAD_SIZE - 1 } }
    /\ input = Repeat(0, CRSF_MAX_PACKET_SIZE)
    /\ pos = 0 /\ limit = 0 /\ out = << >> /\ iter = NoIter

\* packet.to_bytes(&mut buffer) with buffer = [0u8; 64]
CommandToBytes ==
    /\ scen.name = "command"
    /\ result.op = "none"
    /\ LET e == DirectCommands_to_bytes(scen.packet, Len(input)) IN
        /\ input' = IF e.tag = "Ok"
                    THEN e.val \o SubSeq(input, Len(e.val) + 1, Len(input))
                    ELSE input
        /\ limit' = IF e.tag = "Ok" THEN Len(e.val) ELSE 0
        /\ result' = [op |-> "to_bytes", ret |-> e]
        /\ aborted' = (e.tag = "Panic")
    /\ UNCHANGED <<buffer, state, position, pos, out, scen, iter>>

\* DirectCommands::from_bytes(&buffer[..len])
CommandFromBytes ==
    /\ scen.name = "command"
    /\ result.op = "to_bytes" /\ result.ret.tag = "Ok"
    /\ LET d == DirectCommands_from_bytes(Slice(input, 0, limit)) IN
        /\ result' = [op |-> "from_bytes", ret |-> d]
        /\ aborted' = (d.tag = "Panic")
    /\ UNCHANGED <<buffer, state, position, input, pos, limit, out, scen, iter>>

\* DirectCommands::from_bytes(&data)
CommandDecode ==
    /\ scen.name = "cmdbytes"
    /\ result.op = "none"
    /\ LET d == DirectCommands_from_bytes(scen.data) IN
        /\ result' = [op |-> "decode", ret |-> d]
        /\ aborted' = (d.tag = "Panic")
    /\ UNCHANGED <<buffer, state, position, input, pos, limit, out, scen, iter>>

NextCommands == CommandToBytes \/ CommandFromBytes \/ CommandDecode

SpecCommands == InitCommands /\ [][NextCommands]_vars

\* C31: to_bytes of a DirectCommands record, whatever its command and field
\* values, writes dst, src, the command id, the sub-payload and the checksum
\* (polynomial 0xBA) of 0x32 and those bytes, and from_bytes of the written
\* bytes returns a record equal to it.
C31_CommandRoundTrip ==
    /\ (scen.name = "command" /\ result.op = "to_bytes") =>
          /\ result.ret.tag = "Ok"
          /\ limit >= DirectCommands_MIN_PAYLOAD_SIZE
          /\ SubSeq(input, 1, 3)
               = << scen.packet.dst_addr, scen.packet.src_addr, command_id(scen.packet.payload) >>
          /\ input[limit] = CommandCrcUpdate(0, << 50 >> \o SubSeq(input, 1, limit - 1))
    /\ (scen.name = "command" /\ result.op = "from_bytes") =>
          result.ret = Ok(scen.packet)

\* C32: from_bytes of a payload of 0..59 bytes returns a record or a typed
\* error; with a wrong inner checksum it returns Err(InvalidPayload), and with
\* a right checksum and no sub-command bytes (dst, src, command id, crc) it
\* returns an error.
C32_DecodeTotal ==
    (scen.name = "cmdbytes" /\ result.op = "decode") =>
        /\ result.ret.tag \in { "Ok", "Err" }
        /\ Len(scen.data) < 4 => result.ret.tag = "Err"
        /\ (Len(scen.data) >= 4
              /\ scen.data[Len(scen.data)]
                   # CommandCrc(SubSeq(scen.data, 1, Len(scen.data) - 1))) =>
              result.ret = Err(InvalidPayload)
        /\ Len(scen.data) = 4 => result.ret.tag = "Err"


(***************************************************************************)
(* The working buffer's bounds (parser.rs, CrsfParser)                      *)
(***************************************************************************)
\* C34: in every state the parser reaches the write cursor is at most 62 and
\* no call of push_byte_raw has written at index 64 or above or taken a slice
\* that is no range of the buffer (no call has panicked); in state Reading(n)
\* the cursor is below n - 1 and n is at most 62; and in state AwaitingCrc
\* the range [2, cursor + 1) the digest is taken over is a range of the
\* buffer.
C34_BufferBounds ==
    /\ position \in 0..(CRSF_MAX_PACKET_SIZE - 2)
    /\ ~aborted
    /\ result.ret.kind # "Abort"
    /\ DOMAIN buffer = 0..(CRSF_MAX_PACKET_SIZE - 1)
    /\ state.tag = "Reading" =>
          /\ position < state.n - 1
          /\ state.n <= CRSF_MAX_PACKET_SIZE - 2
    /\ state = AwaitingCrc =>
          /\ 2 <= position + 1
          /\ position + 1 < CRSF_MAX_PACKET_SIZE

\* the longest frame the parser lets in, all of it read but its CRC
C34_Witness ==
    /\ scen.name = "frame"
    /\ state = AwaitingCrc
    /\ position = CRSF_MAX_PACKET_SIZE - 3
    /\ pos = CRSF_MAX_PACKET_SIZE - 2


(***************************************************************************)
(* iter_packets_raw and RawPacketIterator::next (parser.rs,                 *)
(* test_raw_packet_iterator)                                                *)
(***************************************************************************)
\* CrsfParser::iter_packets_raw
iter_packets_raw(p, buf) == [parser |-> p, buffer |-> buf, pos |-> 0]

\* one turn of the loop in next(): the byte at pos goes through
\* push_byte_raw, then pos is advanced
RawIterStep(it) ==
    LET r == push_byte_raw(it.parser, At(it.buffer, it.pos)) IN
    [it |-> [it EXCEPT !.pos = it.pos + 1, !.parser = r.parser], result |-> r.result]

RECURSIVE RawPacketIterator_next(_)

\* the match on the result of push_byte_raw in next(). start_index is
\* self.pos - packet_len in usize: below 0 the subtraction panics where
\* overflow is checked and wraps where it is not, and then the slice
\* &self.buffer[start_index..self.pos] starts past its end and panics.
RawIterMatch(s) ==
    CASE s.result.kind = "Complete" ->
            LET packet_len == Len(s.result.val)
                start_index == s.it.pos - packet_len
            IN  IF start_index < 0
                THEN [it |-> s.it, item |-> Panic, start |-> start_index]
                ELSE [it |-> s.it, start |-> start_index,
                      item |-> Some(Ok(Slice(s.it.buffer, start_index, s.it.pos)))]
      [] s.result.kind = "Error" -> [it |-> s.it, item |-> Some(Err(s.result.err)), start |-> 0]
      [] s.result.kind = "Abort" -> [it |-> s.it, item |-> Panic, start |-> 0]
      [] OTHER -> RawPacketIterator_next(s.it)

\* RawPacketIterator::next: the whole loop of one call
RawPacketIterator_next(it) ==
    IF it.pos < Len(it.buffer) THEN RawIterMatch(RawIterStep(it))
    ELSE [it |-> it, item |-> None, start |-> 0]

\* the stream of test_raw_packet_iterator, and streams with bytes that are
\* no frame before and between the frames
RawStreams ==
    { F_LinkStats \o F_RcChannels,
      F_LinkStats,
      << 1, 255 >> \o F_LinkStats \o << 7 >> \o F_LinkStats,
      WithLast(F_LinkStats, 0) \o F_LinkStats,
      F_Trunc \o F_LinkStats }

\* the sizes of the buffers a caller hands over; 0 stands for all that is
\* left
RawChunkSizes == { 0, 1, 5, 14, 16 }

InitRawChunks ==
    /\ FreshParser
    /\ scen \in { [name |-> "rawchunks", stream |-> st, sizes |-> RawChunkSizes] :
                    st \in RawStreams }
    /\ input = scen.stream
    /\ pos = 0 /\ limit = 0 /\ out = << >> /\ iter = NoIter

\* parser.iter_packets_raw(chunk) on the next k bytes of the input
RawIterPackets(k) ==
    /\ ~aborted
    /\ ~iter.live
    /\ limit < Len(input)
    /\ LET it == iter_packets_raw(Parser, Slice(input, limit, limit + k)) IN
        /\ SetParser(it.parser)
        /\ iter' = [live |-> TRUE, whole |-> (limit = 0 /\ k = Len(input)),
                    buffer |-> it.buffer, pos |-> it.pos]
    /\ limit' = limit + k
    /\ result' = [op |-> "iter_packets_raw", ret |-> [kind |-> "None"]]
    /\ UNCHANGED <<input, pos, out, scen, aborted>>

\* one call of next() on the raw iterator
RawIterNext ==
    /\ ~aborted
    /\ iter.live
    /\ LET r == RawPacketIterator_next([parser |-> Parser, buffer |-> iter.buffer,
                                        pos |-> iter.pos]) IN
        /\ SetParser(r.it.parser)
        /\ iter' = [iter EXCEPT !.pos = r.it.pos, !.live = (r.item.tag # "None")]
        /\ pos' = pos + (r.it.pos - iter.pos)
        /\ out' = IF r.item.tag = "Some" THEN Append(out, r.item.val) ELSE out
        /\ aborted' = (r.item.tag = "Panic")
        /\ result' = [op |-> "next_raw", ret |-> r.item, start |-> r.start]
    /\ UNCHANGED <<input, limit, scen>>

RawIterPacketsAny ==
    \E k \in 1..Len(input) :
        /\ k = Len(input) - limit \/ (k \in scen.sizes /\ limit + k <= Len(input))
        /\ RawIterPackets(k)

NextRawIter == RawIterPacketsAny \/ RawIterNext

SpecRawChunks == InitRawChunks /\ [][NextRawIter]_vars

\* C35: whatever buffers the stream is handed over in, and whatever the
\* parser already holds when iter_packets_raw is called, next() does not
\* panic, and an Ok item is the bytes of the given buffer from a start index
\* of 0 or more up to the iterator's position: the whole frame the parser
\* has just completed.
C35_RawItems ==
    scen.name = "rawchunks" =>
        /\ ~aborted
        /\ (result.op = "next_raw" /\ result.ret.tag = "Some" /\ result.ret.val.tag = "Ok") =>
              /\ result.start >= 0
              /\ result.ret.val.val = Slice(iter.buffer, result.start, iter.pos)
              /\ result.ret.val.val = BufSlice(buffer, 0, Len(result.ret.val.val))
              /\ WellFormed(result.ret.val.val)


(***************************************************************************)
(* BlockingCrsfReader over long streams: its queue (blocking_io.rs)         *)
(***************************************************************************)
\* streams longer than one read and than the queue, of short and long frames
QueueFrameSet == { F_Clean, F_RcChannels }
QueueReadSizes == { 1, 64 }
QueueFaults == { 0, -1 }
QueueFrames == 4
QueueReads == 2

InitQueue ==
    /\ FreshParser
    /\ scen \in { [name |-> "reader", kind |-> "blocking", frames |-> fs, script |-> sc] :
                    fs \in SeqsUpTo(QueueFrameSet, QueueFrames) \ { << >> },
                    sc \in SeqsUpTo(QueueReadSizes \cup QueueFaults, QueueReads) }
    /\ input = Concat(scen.frames)
    /\ pos = 0 /\ limit = 0 /\ out = << >> /\ iter = NoIter

SpecQueue == InitQueue /\ [][ReadPacketBlocking]_vars

\* C36: between the calls of read_packet the queue of a BlockingCrsfReader
\* holds at most 64 bytes, and no call returns InputBufferTooSmall.
C36_QueueBounded ==
    (scen.name = "reader" /\ scen.kind = "blocking") =>
        /\ Len(out) <= CRSF_MAX_PACKET_SIZE
        /\ ReadCall => result.ret # Err(InputBufferTooSmall)

\* a read of 64 bytes was queued and the call returned at the end of the
\* first, short frame: 58 bytes stay queued
C36_Witness ==
    /\ ReadCall /\ scen.kind = "blocking"
    /\ Len(input) > CRSF_MAX_PACKET_SIZE
    /\ pos = CRSF_MAX_PACKET_SIZE
    /\ Len(out) = CRSF_MAX_PACKET_SIZE - Len(F_Clean)

\* C37: a call of read_packet on a BlockingCrsfReader, whatever it returns
\* and whatever the calls before it returned, pushes the bytes of the source
\* that follow the ones pushed before it, in order and each once, the queued
\* ones first, and leaves queued the bytes the source has delivered after
\* them.
C37_StreamPreserved ==
    [][(scen.name = "reader" /\ scen.kind = "blocking") =>
          /\ Fed' >= Fed
          /\ Fed' >= Fed + Len(out) \/ Len(out') = Len(out) - (Fed' - Fed)
          /\ Fed' + Len(out') = pos'
          /\ out' = SubSeq(input, Fed' + 1, pos')
          /\ Parser' = PushAll(Parser, SubSeq(input, Fed + 1, Fed'), << >>).parser]_vars

\* a call returned an error from the source with a frame half pushed, and a
\* later call returned with bytes still queued
C37_Witness ==
    /\ ReadCall /\ scen.kind = "blocking"
    /\ \E i \in 1..limit : scen.script[i] <= 0
    /\ result.call >= 3
    /\ Len(out) > 0
    /\ result.fed > Len(F_Clean)


(***************************************************************************)
(* reset() against CrsfParser::new() (parser.rs)                            *)
(***************************************************************************)
RECURSIVE PushAllRaw(_, _, _)
\* pushing s byte by byte with push_byte_raw from parser p: every result
PushAllRaw(p, s, items) ==
    IF Len(s) = 0 THEN [parser |-> p, items |-> items]
    ELSE LET r == push_byte_raw(p, Head(s)) IN
         IF r.result.kind = "Abort" THEN [parser |-> r.parser, items |-> Append(items, r.result)]
         ELSE PushAllRaw(r.parser, Tail(s), Append(items, r.result))

\* the bytes that bring the parser to the state reset() is called in: any
\* first bytes of these streams
BeforeStreams ==
    { F_RcChannels \o << 200, 24 >>,
      F_LinkStats \o F_Clean \o << 1 >>,
      WithLast(F_LinkStats, 0) \o << 200, 1, 200 >> }

\* the bytes pushed after reset(): frames shorter and longer than what the
\* buffer holds, a wrong CRC, a cut frame, bytes that are no address
AfterStreams ==
    { F_Clean, F_LinkStats, F_RcChannels, WithLast(F_Clean, 0),
      F_Trunc \o F_Clean, << 1, 200, 1 >> \o F_Clean, << 200, 2, 16, 16, 200, 62 >> }

Prefixes(st) == { SubSeq(st, 1, k) : k \in 0..Len(st) }

InitReset ==
    /\ FreshParser
    /\ scen \in { [name |-> "reset", before |-> b, t |-> t] :
                    b \in UNION { Prefixes(st) : st \in BeforeStreams },
                    t \in AfterStreams }
    /\ input = scen.before \o scen.t
    /\ limit = Len(scen.before)
    /\ pos = 0 /\ out = << >> /\ iter = NoIter

\* reset() has been called
WasReset == result.op = "reset" \/ iter.live

\* push_byte_raw of the next byte, before reset() is called
PushBefore ==
    /\ scen.name = "reset" /\ ~WasReset /\ ~aborted
    /\ pos < limit
    /\ LET r == push_byte_raw(Parser, input[pos + 1]) IN
        /\ SetParser(r.parser)
        /\ result' = [op |-> "push_byte_raw", ret |-> r.result]
        /\ aborted' = (r.result.kind = "Abort")
    /\ pos' = pos + 1
    /\ UNCHANGED <<input, limit, out, scen, iter>>

\* parser.reset()
ResetParser ==
    /\ scen.name = "reset" /\ ~WasReset /\ ~aborted
    /\ pos = limit
    /\ SetParser(reset(Parser))
    /\ result' = [op |-> "reset", ret |-> [kind |-> "None"]]
    /\ UNCHANGED <<input, pos, limit, out, scen, aborted, iter>>

\* push_byte_raw of the next byte, after reset(); out holds the results
\* since reset()
PushAfter ==
    /\ scen.name = "reset" /\ WasReset /\ ~aborted
    /\ pos < Len(input)
    /\ LET r == push_byte_raw(Parser, input[pos + 1]) IN
        /\ SetParser(r.parser)
        /\ result' = [op |-> "push_byte_raw", ret |-> r.result]
        /\ out' = Append(out, r.result)
        /\ aborted' = (r.result.kind = "Abort")
    /\ pos' = pos + 1
    /\ iter' = [iter EXCEPT !.live = TRUE]
    /\ UNCHANGED <<input, limit, scen>>

NextReset == PushBefore \/ ResetParser \/ PushAfter

SpecReset == InitReset /\ [][NextReset]_vars

\* the same bytes pushed into CrsfParser::new()
IntoNew == PushAllRaw(CrsfParser_new, SubSeq(scen.t, 1, Len(out)), << >>)

\* C38: after reset() in any state the parser has reached, the results of
\* pushing bytes are the results of pushing the same bytes into
\* CrsfParser::new(), and the parser awaits what that parser awaits, whatever
\* the working buffer held at the reset.
C38_ResetIsNew ==
    (scen.name = "reset" /\ WasReset) =>
        /\ out = IntoNew.items
        /\ state = IntoNew.parser.state
        /\ position = IntoNew.parser.position

\* reset() was called in the middle of a frame, and a shorter frame pushed
\* after it was returned while the buffer still held bytes of the first
C38_Witness ==
    /\ scen.name = "reset" /\ WasReset
    /\ Len(scen.before) > Len(F_Clean) + 2
    /\ scen.t = F_Clean
    /\ Len(out) = Len(F_Clean)
    /\ out[Len(out)] = Complete(F_Clean)
    /\ buffer[Len(F_Clean)] # 0
    /\ buffer # IntoNew.parser.buffer


(***************************************************************************)
(* Altitude packed and unpacked again (baro_altitude.rs)                    *)
(***************************************************************************)
\* get_altitude_dm of the record that holds get_altitude_packed(a)
AltitudeRoundTrip(a) == get_altitude_dm(get_altitude_packed(a))

\* the inputs every input is compared with: the ones around the corners of
\* the packing and both ends of i32
AltitudeLandmarks ==
    UNION { { c + d : d \in (-AltitudeSpan)..AltitudeSpan } :
                c \in { -ALT_MIN_DM, 0, ALT_THRESHOLD_DM, ALT_MAX_DM } }
    \cup { I32_MIN, I32_MAX }

\* C39: get_altitude_dm of get_altitude_packed(a) is a for a in
\* [-10000, 22767], differs from a by at most 5 for a in [22768, 327655], and
\* never decreases when a grows, over all i32.
C39_AltitudeRoundTrip ==
    (scen.name = "altitude" /\ result.op = "get_altitude_dm") =>
        LET a == scen.a
            r == result.ret
        IN  /\ r = AltitudeRoundTrip(a)
            /\ (-10000 <= a /\ a <= 22767) => r = a
            /\ (22768 <= a /\ a <= 327655) => (r - a <= 5 /\ a - r <= 5)
            /\ a < I32_MAX => r <= AltitudeRoundTrip(a + 1)
            /\ a > I32_MIN => AltitudeRoundTrip(a - 1) <= r
            /\ \A b \in AltitudeLandmarks :
                  /\ b <= a => AltitudeRoundTrip(b) <= r
                  /\ a <= b => r <= AltitudeRoundTrip(b)

\* an input packed in meters came back 5 dm higher
C39_Witness ==
    /\ scen.name = "altitude" /\ result.op = "get_altitude_dm"
    /\ scen.a = 22775
    /\ limit = 32768 + 2278
    /\ result.ret = 22780


(***************************************************************************)
(* The vertical speed accessors on the whole of their domains               *)
(* (baro_altitude.rs, test_edge_cases)                                      *)
(***************************************************************************)
\* C40: get_vertical_speed_cm_s returns a value, with no integer overflow on
\* the way, for every vertical_speed_packed in -128..127, and -128 is what
\* from_bytes makes of the wire byte 0x80; get_vertical_speed_packed returns
\* a value, with no integer overflow on the way, for every i16, -32768
\* included.
C40_VSpeedDefined ==
    /\ (VUnpacked \/ VPacked) => (result.ret.tag = "Ok" /\ ~aborted)
    /\ (VUnpacked /\ scen.v < 0) =>
          LET r == BaroAltitude_from_bytes(<< 0, 0, scen.v + 256 >>) IN
          r.tag = "Ok" /\ r.val.vertical_speed_packed = scen.v

====
